---- MODULE Spec2Model ----
(***************************************************************************)
(* Model of the workflow orchestration core of the AI Mentor backend:      *)
(*   - the self-correcting RAG loop of AgenticRAGService                   *)
(*     (backend/app/services/agentic_rag.py),                              *)
(*   - its streaming form query_stream() behind the /api/ws/chat endpoint  *)
(*     (backend/app/api/chat_ws.py),                                       *)
(*   - the phase router and the phase nodes of the pedagogical tutor       *)
(*     (backend/app/services/pedagogical_graph.py), and                    *)
(*   - the conversation store and the tutoring endpoints                   *)
(*     (services/state_manager.py, api/chat_router.py).                    *)
(* Texts are sequences of one-character strings, so that strip(), lower(), *)
(* upper() and the substring test "kw in text" are computed, not assumed.  *)
(***************************************************************************)
EXTENDS Integers, Sequences, FiniteSets, TLC

VARIABLES
    \* --- one AgenticRAGService.query() run: the AgentState and its position
    pc,                  \* node the graph runs next, or where the run has got to
    question,            \* state["question"]
    rewritten_question,  \* state["rewritten_question"]  (None or a text)
    documents,           \* state["documents"]
    document_scores,     \* state["document_scores"]
    document_metadata,   \* state["document_metadata"]
    generation,          \* state["generation"]
    retry_count,         \* state["retry_count"]
    max_retries,         \* state["max_retries"]
    relevance_decision,  \* state["relevance_decision"]  ("None", "yes", "no")
    workflow_path,       \* state["workflow_path"]
    slm_prompt,          \* state["slm_prompt"] (key absent until generate)
    port_calls,          \* ports called by the node that ran last
    ports,               \* how the ports plugged into the service behave in this run
    result,              \* the dict query() returns
    stream,              \* TRUE in a query_stream() run, FALSE in a query() run
    events,              \* the events the websocket client has been sent
    \* --- one call of _decide_after_grading / route_phase on an arbitrary input
    fn_pc,               \* "idle", "ready" or "called"
    fn_in,               \* the argument
    fn_before,           \* the argument as it was before the call
    fn_out,              \* the value returned
    \* --- the pedagogical tutor: the StateManager singleton and its HTTP endpoints
    states,              \* StateManager.states, conversation id -> PedagogicalState
    request,             \* the request served last, and what the ports did during it
    response,            \* the response it was given
    \* --- the connections to /api/ws/chat-pedagogical/{conversation_id}
    conns,               \* connection -> where its handler stands and what it holds
    running,             \* the connection whose handler runs without having awaited, or "none"
    sent                 \* the events the step taken last has sent, and the connection they went to

ragVars == <<pc, question, rewritten_question, documents, document_scores,
             document_metadata, generation, retry_count, max_retries,
             relevance_decision, workflow_path, slm_prompt, port_calls, ports,
             result, stream, events>>
fnVars == <<fn_pc, fn_in, fn_before, fn_out>>
wsVars == <<conns, running, sent>>
tutorVars == <<states, request, response, conns, running, sent>>
vars == <<pc, question, rewritten_question, documents, document_scores,
          document_metadata, generation, retry_count, max_retries,
          relevance_decision, workflow_path, slm_prompt, port_calls, ports, result,
          stream, events,
          fn_pc, fn_in, fn_before, fn_out,
          states, request, response, conns, running, sent>>

----------------------------------------------------------------------------
(* Bounds of the model *)

\* largest max_retries a caller passes to query()
MaxRetriesBound == 2

\* largest retry_count / max_retries handed to _decide_after_grading in isolation
MaxCounterBound == 4

----------------------------------------------------------------------------
(* Python values *)

\* Optional[str]: None, or a text
None == [some |-> FALSE, text |-> <<>>]
Some(t) == [some |-> TRUE, text |-> t]

\* Python truthiness of an Optional[str]: None and "" are falsy
Truthy(o) == o.some /\ o.text # <<>>

\* a or b
OrElse(o, t) == IF Truthy(o) THEN o.text ELSE t

IsSpace(c) == c \in {" ", "\n", "\t"}

RECURSIVE LStrip(_)
LStrip(s) == IF s # <<>> /\ IsSpace(Head(s)) THEN LStrip(Tail(s)) ELSE s

RECURSIVE RStrip(_)
RStrip(s) == IF s # <<>> /\ IsSpace(s[Len(s)]) THEN RStrip(SubSeq(s, 1, Len(s) - 1)) ELSE s

\* str.strip()
Strip(s) == RStrip(LStrip(s))

UpperLetters == <<"A","B","C","D","E","F","G","H","I","J","K","L","M",
                  "N","O","P","Q","R","S","T","U","V","W","X","Y","Z">>
LowerLetters == <<"a","b","c","d","e","f","g","h","i","j","k","l","m",
                  "n","o","p","q","r","s","t","u","v","w","x","y","z">>

LowerChar(c) == IF \E i \in 1..Len(UpperLetters) : UpperLetters[i] = c
                THEN LowerLetters[CHOOSE i \in 1..Len(UpperLetters) : UpperLetters[i] = c]
                ELSE c
UpperChar(c) == IF \E i \in 1..Len(LowerLetters) : LowerLetters[i] = c
                THEN UpperLetters[CHOOSE i \in 1..Len(LowerLetters) : LowerLetters[i] = c]
                ELSE c

\* str.lower(), str.upper()
Lower(s) == [i \in 1..Len(s) |-> LowerChar(s[i])]
Upper(s) == [i \in 1..Len(s) |-> UpperChar(s[i])]

\* sub in s
Contains(s, sub) == \E i \in 0..(Len(s) - Len(sub)) : SubSeq(s, i + 1, i + Len(sub)) = sub

\* any(keyword in s for keyword in kws)
AnyIn(kws, s) == \E k \in 1..Len(kws) : Contains(s, kws[k])

----------------------------------------------------------------------------
(* The ports, as the sets of outcomes one call can have *)

\* query_engine.query(): an exception, or a response with source_nodes
\* node.score is a float or None; floats are kept in hundredths
NoScore == [some |-> FALSE, val |-> 0]
Score(v) == [some |-> TRUE, val |-> v]
Doc1 == [text |-> <<"d","1">>, score |-> Score(85), metadata |-> "m1"]
Doc2 == [text |-> <<"d","2">>, score |-> NoScore, metadata |-> "m2"]
RetrievalOutcomes ==
    { [ok |-> FALSE, nodes |-> <<>>],
      [ok |-> TRUE, nodes |-> <<>>],
      [ok |-> TRUE, nodes |-> <<Doc1>>],
      [ok |-> TRUE, nodes |-> <<Doc1, Doc2>>] }

\* llm.complete(): an exception carrying a message, or a response with .text
LLMError == [ok |-> FALSE, text |-> <<"d","o","w","n">>]
GradeOutcomes ==
    { LLMError,
      [ok |-> TRUE, text |-> <<" ","Y","e","s",".","\n">>],
      [ok |-> TRUE, text |-> <<"n","o">>] }
RewriteOutcomes ==
    { LLMError,
      [ok |-> TRUE, text |-> <<" ","r","q","\n">>],
      [ok |-> TRUE, text |-> <<" ">>] }
GenerateOutcomes ==
    { LLMError,
      [ok |-> TRUE, text |-> <<" ","a","n","s"," ">>] }

Questions == { <<"q","?">> }

\* the ports of one run: a retrieval port that may do anything or one that
\* finds nothing on every call; a completion port whose rewrite completions
\* may fail or always succeed
PortBehaviours == [retrieval : {"any", "empty"}, rewrite : {"any", "ok"}]
RetrievalPort == IF ports.retrieval = "empty"
                 THEN {[ok |-> TRUE, nodes |-> <<>>]}
                 ELSE RetrievalOutcomes
RewritePort == IF ports.rewrite = "ok"
               THEN {out \in RewriteOutcomes : out.ok}
               ELSE RewriteOutcomes

----------------------------------------------------------------------------
(* AgenticRAGService: the graph of _build_graph and its four nodes *)

\* LangGraph's default recursion_limit: graph.invoke() is called without a
\* config, so a run that has not reached END after this many node executions
\* raises GraphRecursionError
RecursionLimit == 25

\* doc[:200] + "..." if len(doc) > 200 else doc
PreviewLen == 200
DocPreview(doc) == IF Len(doc) > PreviewLen
                   THEN SubSeq(doc, 1, PreviewLen) \o <<".",".",".">>
                   ELSE doc

Min(a, b) == IF a < b THEN a ELSE b

\* float(node.score) if node.score else 0.0
FloatOrZero(s) == IF s.some /\ s.val # 0 THEN s.val ELSE 0

\* " -> ".join(path), the arrow being the one character U+2192 in the source:
\* the node names with the separator between them
Arrow == " -> "
RECURSIVE JoinArrow(_)
JoinArrow(path) == IF Len(path) <= 1 THEN path
                   ELSE <<Head(path), Arrow>> \o JoinArrow(Tail(path))

NoPrompt == [present |-> FALSE, question |-> <<>>, documents |-> <<>>]
\* the generation prompt: the template with the context documents and the question
GenerationPrompt(q, docs) == [present |-> TRUE, question |-> q, documents |-> docs]

ApologyPrefix == <<"I"," ","a","p","o","l","o","g","i","z","e",":"," ">>

EmptyResult == [answer |-> <<>>, sources |-> <<>>, question |-> <<>>,
                num_sources |-> 0, workflow_path |-> <<>>, rewrites_used |-> 0,
                was_rewritten |-> FALSE, slm_prompt |-> NoPrompt]

\* a routing function that lets one rewrite too many through
DecideAfterGrading_OffByOne(decision, retries, maxRetries) ==
    IF decision = "yes" THEN "generate"
    ELSE IF retries > maxRetries THEN "generate"
    ELSE "rewrite"

\* a routing function that ignores the verdict of the grade step
DecideAfterGrading_IgnoresVerdict(decision, retries, maxRetries) ==
    IF retries >= maxRetries THEN "generate" ELSE "rewrite"

\* a routing function that gives up one retry early
DecideAfterGrading_GivesUpEarly(decision, retries, maxRetries) ==
    IF decision = "yes" THEN "generate"
    ELSE IF retries + 1 >= maxRetries THEN "generate"
    ELSE "rewrite"

\* _decide_after_grading: the conditional edge after grade_documents
DecideAfterGrading(decision, retries, maxRetries) ==
    IF decision = "yes" THEN "generate"
    ELSE IF retries >= maxRetries THEN "generate"
    ELSE "rewrite"

\* the edge map of add_conditional_edges
EdgeAfterGrading(route) == IF route = "generate" THEN "generate" ELSE "rewrite_query"

\* a graph whose rewrite node loops back to grading, not to retrieval
EdgeAfterRewrite_ToGrade == "grade_documents"

\* the node that follows a rewrite: add_edge("rewrite_query", "retrieve")
EdgeAfterRewrite == "retrieve"

\* the events query_stream() yields
WorkflowEvent(node) ==
    [type |-> "workflow", node |-> node, message |-> <<"Running ", node, "...">>]
TokenEvent(token) == [type |-> "token", content |-> token]
ErrorEvent(prefix, e) == [type |-> "error", message |-> <<prefix, e>>]

\* a stream that drops the progress event of the grade node
NodeEvents_SkipsGrade(node, out) ==
    IF node = "grade_documents" THEN <<>> ELSE <<WorkflowEvent(node)>>

\* a stream that passes on the completions of the grade and rewrite nodes
NodeEvents_LeaksCompletion(node, out) ==
    IF node \in {"grade_documents", "rewrite_query"}
    THEN <<WorkflowEvent(node), TokenEvent(out.text)>>
    ELSE <<WorkflowEvent(node)>>

\* query_stream(): what is yielded for one item of graph.astream(), the update
\* `out` made the node return
NodeEvents(node, out) == <<WorkflowEvent(node)>>

\* query(): initial_state
RagInit ==
    /\ pc = "retrieve"
    /\ question \in Questions
    /\ rewritten_question = None
    /\ documents = <<>>
    /\ document_scores = <<>>
    /\ document_metadata = <<>>
    /\ generation = <<>>
    /\ retry_count = 0
    /\ max_retries \in 0..MaxRetriesBound
    /\ relevance_decision = "None"
    /\ workflow_path = <<>>
    /\ slm_prompt = NoPrompt
    /\ port_calls = <<>>
    /\ ports \in PortBehaviours
    /\ result = EmptyResult
    /\ stream = FALSE
    /\ events = <<>>

FnIdle ==
    /\ fn_pc = "idle"
    /\ fn_in = <<>>
    /\ fn_before = <<>>
    /\ fn_out = <<>>

\* StateManager.__init__, and no request served yet
EmptyStore == [id \in {} |-> <<>>]
NoRequest == [op |-> "none"]
NoResponse == [status |-> 0]
\* a connection between two messages, awaiting receive_text()
NoResult == [generation |-> <<>>, pedagogical_state |-> <<>>]
Receiving(id) ==
    [pc |-> "receive", id |-> id, message |-> <<>>, previous_phase |-> <<>>,
     held_stored |-> FALSE, held_state |-> <<>>, target |-> <<>>, result |-> NoResult]
WsConns == {"w1", "w2"}
Sent(c, evs) == [conn |-> c, events |-> evs]
NothingSent == Sent("none", <<>>)
WsIdle ==
    /\ conns = [c \in WsConns |-> Receiving("c1")]
    /\ running = "none"
    /\ sent = NothingSent

TutorIdle ==
    /\ states = EmptyStore
    /\ request = NoRequest
    /\ response = NoResponse
    /\ WsIdle

Init == RagInit /\ FnIdle /\ TutorIdle

\* the record of a port call: the port, and "raised" when the call failed
PortCall(port, out) == IF out.ok THEN <<port>> ELSE <<port, "raised">>

Running == pc \in {"retrieve", "grade_documents", "rewrite_query", "generate"}

\* a retrieve node that records a score only for the nodes that carry one
Retrieve_DropsUnscored(out) ==
    /\ pc = "retrieve"
    /\ Len(workflow_path) < RecursionLimit
    /\ workflow_path' = Append(workflow_path, "retrieve")
    /\ events' = IF stream THEN events \o NodeEvents("retrieve", out) ELSE events
    /\ port_calls' = PortCall("query_engine.query", out)
    /\ LET n == Len(out.nodes)
           scored == SelectSeq(out.nodes, LAMBDA node : node.score.some)
           raised == ~out.ok \/ n = 0
       IN  /\ documents' = IF raised THEN <<>> ELSE [i \in 1..n |-> out.nodes[i].text]
           /\ document_scores' = IF raised THEN <<>>
                                 ELSE [i \in 1..Len(scored) |-> scored[i].score.val]
           /\ document_metadata' = IF raised THEN <<>>
                                   ELSE [i \in 1..n |-> out.nodes[i].metadata]
    /\ pc' = "grade_documents"
    /\ UNCHANGED <<question, rewritten_question, generation, retry_count, max_retries,
                   relevance_decision, slm_prompt, ports, result, stream>>
    /\ UNCHANGED fnVars
    /\ UNCHANGED tutorVars

\* a retrieve node that keeps the documents it had when the port fails
Retrieve_KeepsDocuments(out) ==
    /\ pc = "retrieve"
    /\ Len(workflow_path) < RecursionLimit
    /\ workflow_path' = Append(workflow_path, "retrieve")
    /\ events' = IF stream THEN events \o NodeEvents("retrieve", out) ELSE events
    /\ port_calls' = PortCall("query_engine.query", out)
    /\ LET n == Len(out.nodes)
       IN  /\ documents' = IF ~out.ok THEN documents
                           ELSE [i \in 1..n |-> out.nodes[i].text]
           /\ document_scores' = IF ~out.ok THEN document_scores
                                 ELSE [i \in 1..n |-> FloatOrZero(out.nodes[i].score)]
           /\ document_metadata' = IF ~out.ok THEN document_metadata
                                   ELSE [i \in 1..n |-> out.nodes[i].metadata]
    /\ pc' = "grade_documents"
    /\ UNCHANGED <<question, rewritten_question, generation, retry_count, max_retries,
                   relevance_decision, slm_prompt, ports, result, stream>>
    /\ UNCHANGED fnVars
    /\ UNCHANGED tutorVars

\* _retrieve
Retrieve(out) ==
    /\ pc = "retrieve"
    /\ Len(workflow_path) < RecursionLimit
    /\ workflow_path' = Append(workflow_path, "retrieve")
    /\ events' = IF stream THEN events \o NodeEvents("retrieve", out) ELSE events
    /\ port_calls' = PortCall("query_engine.query", out)
    /\ LET n == Len(out.nodes)
           \* the log line divides by len(scores): no nodes raises inside the try
           raised == ~out.ok \/ n = 0
       IN  /\ documents' = IF raised THEN <<>> ELSE [i \in 1..n |-> out.nodes[i].text]
           /\ document_scores' = IF raised THEN <<>>
                                 ELSE [i \in 1..n |-> FloatOrZero(out.nodes[i].score)]
           /\ document_metadata' = IF raised THEN <<>>
                                   ELSE [i \in 1..n |-> out.nodes[i].metadata]
    /\ pc' = "grade_documents"
    /\ UNCHANGED <<question, rewritten_question, generation, retry_count, max_retries,
                   relevance_decision, slm_prompt, ports, result, stream>>
    /\ UNCHANGED fnVars
    /\ UNCHANGED tutorVars

\* a grader that takes a failed completion for "not relevant"
GradeVerdict_FailsClosed(out) ==
    IF out.ok
    THEN IF Contains(Lower(Strip(out.text)), <<"y","e","s">>) THEN "yes" ELSE "no"
    ELSE "no"

\* the verdict _grade_documents parses out of a completion
GradeVerdict(out) ==
    IF out.ok
    THEN IF Contains(Lower(Strip(out.text)), <<"y","e","s">>) THEN "yes" ELSE "no"
    ELSE "yes"

\* a grade node that asks the completion port even about no documents
NoDocuments_NeverSkips(docs) == FALSE

\* _grade_documents: "if not documents"
NoDocuments(docs) == docs = <<>>

\* _grade_documents, followed by the conditional edge
GradeDocuments(out) ==
    /\ pc = "grade_documents"
    /\ Len(workflow_path) < RecursionLimit
    /\ workflow_path' = Append(workflow_path, "grade")
    /\ events' = IF stream THEN events \o NodeEvents("grade_documents", out) ELSE events
    /\ IF NoDocuments(documents)
       THEN /\ relevance_decision' = "no"
            /\ port_calls' = <<>>
       ELSE /\ relevance_decision' = GradeVerdict(out)
            /\ port_calls' = PortCall("llm.complete", out)
    /\ pc' = EdgeAfterGrading(DecideAfterGrading(relevance_decision', retry_count, max_retries))
    /\ UNCHANGED <<question, rewritten_question, documents, document_scores,
                   document_metadata, generation, retry_count, max_retries,
                   slm_prompt, ports, result, stream>>
    /\ UNCHANGED fnVars
    /\ UNCHANGED tutorVars

\* a rewrite node that counts a failed completion as a retry
RewriteQuery_CountsFailure(out) ==
    /\ pc = "rewrite_query"
    /\ Len(workflow_path) < RecursionLimit
    /\ workflow_path' = Append(workflow_path, "rewrite")
    /\ events' = IF stream THEN events \o NodeEvents("rewrite_query", out) ELSE events
    /\ port_calls' = PortCall("llm.complete", out)
    /\ rewritten_question' = IF out.ok THEN Some(Strip(out.text)) ELSE rewritten_question
    /\ retry_count' = retry_count + 1
    /\ pc' = EdgeAfterRewrite
    /\ UNCHANGED <<question, documents, document_scores, document_metadata,
                   generation, max_retries, relevance_decision, slm_prompt, ports, result, stream>>
    /\ UNCHANGED fnVars
    /\ UNCHANGED tutorVars

\* a rewrite node that overwrites the question and leaves rewritten_question
RewriteQuery_OverwritesQuestion(out) ==
    /\ pc = "rewrite_query"
    /\ Len(workflow_path) < RecursionLimit
    /\ workflow_path' = Append(workflow_path, "rewrite")
    /\ events' = IF stream THEN events \o NodeEvents("rewrite_query", out) ELSE events
    /\ port_calls' = PortCall("llm.complete", out)
    /\ IF out.ok
       THEN /\ question' = Strip(out.text)
            /\ retry_count' = retry_count + 1
       ELSE UNCHANGED <<question, retry_count>>
    /\ pc' = EdgeAfterRewrite
    /\ UNCHANGED <<rewritten_question, documents, document_scores, document_metadata,
                   generation, max_retries, relevance_decision, slm_prompt, ports, result, stream>>
    /\ UNCHANGED fnVars
    /\ UNCHANGED tutorVars

\* _rewrite_query
RewriteQuery(out) ==
    /\ pc = "rewrite_query"
    /\ Len(workflow_path) < RecursionLimit
    /\ workflow_path' = Append(workflow_path, "rewrite")
    /\ events' = IF stream THEN events \o NodeEvents("rewrite_query", out) ELSE events
    /\ port_calls' = PortCall("llm.complete", out)
    /\ IF out.ok
       THEN /\ rewritten_question' = Some(Strip(out.text))
            /\ retry_count' = retry_count + 1
       ELSE UNCHANGED <<rewritten_question, retry_count>>
    /\ pc' = EdgeAfterRewrite
    /\ UNCHANGED <<question, documents, document_scores, document_metadata,
                   generation, max_retries, relevance_decision, slm_prompt, ports, result, stream>>
    /\ UNCHANGED fnVars
    /\ UNCHANGED tutorVars

\* a generate node that lets the failure of its completion call out
Generate_PropagatesFailure(out) ==
    /\ pc = "generate"
    /\ Len(workflow_path) < RecursionLimit
    /\ workflow_path' = Append(workflow_path, "generate")
    /\ events' = IF stream THEN events \o NodeEvents("generate", out) ELSE events
    /\ port_calls' = PortCall("llm.complete", out)
    /\ slm_prompt' = GenerationPrompt(OrElse(rewritten_question, question), documents)
    /\ generation' = IF out.ok THEN Strip(out.text) ELSE generation
    /\ pc' = IF out.ok THEN "END" ELSE "raised"
    /\ UNCHANGED <<question, rewritten_question, documents, document_scores,
                   document_metadata, retry_count, max_retries, relevance_decision,
                   ports, result, stream>>
    /\ UNCHANGED fnVars
    /\ UNCHANGED tutorVars

\* _generate
Generate(out) ==
    /\ pc = "generate"
    /\ Len(workflow_path) < RecursionLimit
    /\ workflow_path' = Append(workflow_path, "generate")
    /\ events' = IF stream THEN events \o NodeEvents("generate", out) ELSE events
    /\ port_calls' = PortCall("llm.complete", out)
    /\ slm_prompt' = GenerationPrompt(OrElse(rewritten_question, question), documents)
    /\ generation' = IF out.ok THEN Strip(out.text) ELSE ApologyPrefix \o out.text
    /\ pc' = "END"
    /\ UNCHANGED <<question, rewritten_question, documents, document_scores,
                   document_metadata, retry_count, max_retries, relevance_decision,
                   ports, result, stream>>
    /\ UNCHANGED fnVars
    /\ UNCHANGED tutorVars

\* query(): the result dict built from final_state
QueryResult ==
    [answer |-> generation,
     sources |-> [i \in 1..Min(Len(documents), Min(Len(document_scores), Len(document_metadata))) |->
                    [text |-> DocPreview(documents[i]),
                     score |-> document_scores[i],
                     metadata |-> document_metadata[i]]],
     question |-> question,
     num_sources |-> Len(documents),
     workflow_path |-> JoinArrow(workflow_path),
     rewrites_used |-> retry_count,
     was_rewritten |-> rewritten_question.some,
     slm_prompt |-> slm_prompt]

\* query(): graph.invoke() returned
QueryReturn ==
    /\ ~stream
    /\ pc = "END"
    /\ result' = QueryResult
    /\ pc' = "returned"
    /\ UNCHANGED <<question, rewritten_question, documents, document_scores,
                   document_metadata, generation, retry_count, max_retries,
                   relevance_decision, workflow_path, slm_prompt, port_calls, ports,
                   stream, events>>
    /\ UNCHANGED fnVars
    /\ UNCHANGED tutorVars

\* query(): graph.invoke() raised GraphRecursionError, which query() re-raises
QueryRaise ==
    /\ ~stream
    /\ Running
    /\ Len(workflow_path) >= RecursionLimit
    /\ pc' = "raised"
    /\ UNCHANGED <<question, rewritten_question, documents, document_scores,
                   document_metadata, generation, retry_count, max_retries,
                   relevance_decision, workflow_path, slm_prompt, port_calls, ports,
                   result, stream, events>>
    /\ UNCHANGED fnVars
    /\ UNCHANGED tutorVars

RetrieveStep == \E out \in RetrievalPort : Retrieve(out)
GradeStep == \E out \in GradeOutcomes : GradeDocuments(out)
RewriteStep == \E out \in RewritePort : RewriteQuery(out)
GenerateStep == \E out \in GenerateOutcomes : Generate(out)

Next ==
    \/ RetrieveStep
    \/ GradeStep
    \/ RewriteStep
    \/ GenerateStep
    \/ QueryReturn
    \/ QueryRaise

Spec == Init /\ [][Next]_vars

----------------------------------------------------------------------------
(* AgenticRAGService.query_stream() behind the /api/ws/chat endpoint *)

\* llm.stream_complete(): the chunks it yields, then its end or an exception
Chunk1 == <<" ","a","n">>
Chunk2 == <<"s"," ">>
StreamOutcomes ==
    { [ok |-> FALSE, chunks |-> <<>>, text |-> LLMError.text],
      [ok |-> FALSE, chunks |-> <<Chunk1>>, text |-> LLMError.text],
      [ok |-> TRUE, chunks |-> <<>>, text |-> <<>>],
      [ok |-> TRUE, chunks |-> <<Chunk1, Chunk2>>, text |-> <<>>] }

\* answer_buffer += token, over all chunks
RECURSIVE Concat(_)
Concat(chunks) == IF chunks = <<>> THEN <<>> ELSE Head(chunks) \o Concat(Tail(chunks))

\* the token events of a sequence of chunks
Tokens(chunks) == [i \in 1..Len(chunks) |-> TokenEvent(chunks[i])]

\* str(e) of the GraphRecursionError graph.astream() raises
GraphRecursionError == <<"r","e","c","u","r","s","i","o","n">>

StreamingFailed == "Streaming failed: "
ProcessingFailed == "Processing failed: "

\* query_stream(): initial_state
StreamInit ==
    /\ pc = "retrieve"
    /\ question \in Questions
    /\ rewritten_question = None
    /\ documents = <<>>
    /\ document_scores = <<>>
    /\ document_metadata = <<>>
    /\ generation = <<>>
    /\ retry_count = 0
    /\ max_retries \in 0..MaxRetriesBound
    /\ relevance_decision = "None"
    /\ workflow_path = <<>>
    /\ slm_prompt = NoPrompt
    /\ port_calls = <<>>
    /\ ports \in PortBehaviours
    /\ result = EmptyResult
    /\ stream = TRUE
    /\ events = <<>>
    /\ FnIdle
    /\ TutorIdle

\* query_stream(): the answer is generated a second time, streamed, when the
\* final state has documents; an exception is caught, reported and re-raised
StreamAnswer(out) ==
    /\ stream
    /\ pc = "END"
    /\ documents # <<>>
    /\ slm_prompt' = GenerationPrompt(OrElse(rewritten_question, question), documents)
    /\ port_calls' = <<"llm.stream_complete">>
    /\ IF out.ok
       THEN /\ events' = events \o Tokens(out.chunks)
            /\ generation' = Strip(Concat(out.chunks))
            /\ pc' = "complete"
       ELSE /\ events' = events \o Tokens(out.chunks)
                                \o <<ErrorEvent(StreamingFailed, out.text)>>
            /\ generation' = generation
            /\ pc' = "raised"
    /\ UNCHANGED <<question, rewritten_question, documents, document_scores,
                   document_metadata, retry_count, max_retries, relevance_decision,
                   workflow_path, ports, result, stream>>
    /\ UNCHANGED fnVars
    /\ UNCHANGED tutorVars

\* query_stream(): the final event, built from final_state; the local name
\* `question` was rebound to the rewritten question when the answer was streamed
CompleteEvent ==
    [type |-> "complete",
     answer |-> generation,
     sources |-> QueryResult.sources,
     question |-> IF documents # <<>> THEN OrElse(rewritten_question, question)
                  ELSE question,
     num_sources |-> Len(documents),
     workflow_path |-> JoinArrow(workflow_path),
     rewrites_used |-> retry_count,
     was_rewritten |-> rewritten_question.some,
     slm_prompt |-> slm_prompt]

\* a generator that streams again after its final event
AfterComplete_StreamsAgain == "END"

\* query_stream(): nothing follows the final event
AfterComplete == "done"

YieldComplete ==
    /\ stream
    /\ pc = "complete" \/ (pc = "END" /\ documents = <<>>)
    /\ events' = Append(events, CompleteEvent)
    /\ pc' = AfterComplete
    /\ UNCHANGED <<question, rewritten_question, documents, document_scores,
                   document_metadata, generation, retry_count, max_retries,
                   relevance_decision, workflow_path, slm_prompt, port_calls, ports,
                   result, stream>>
    /\ UNCHANGED fnVars
    /\ UNCHANGED tutorVars

\* query_stream(): graph.astream() raised GraphRecursionError, which is caught,
\* reported and re-raised
StreamGraphRaise ==
    /\ stream
    /\ Running
    /\ Len(workflow_path) >= RecursionLimit
    /\ events' = Append(events, ErrorEvent(StreamingFailed, GraphRecursionError))
    /\ pc' = "raised"
    /\ UNCHANGED <<question, rewritten_question, documents, document_scores,
                   document_metadata, generation, retry_count, max_retries,
                   relevance_decision, workflow_path, slm_prompt, port_calls, ports,
                   result, stream>>
    /\ UNCHANGED fnVars
    /\ UNCHANGED tutorVars

\* websocket_chat_endpoint: "except Exception as e" around the async for
EndpointExcept ==
    /\ stream
    /\ pc = "raised"
    /\ events' = Append(events, ErrorEvent(ProcessingFailed, events[Len(events)].message[2]))
    /\ pc' = "done"
    /\ UNCHANGED <<question, rewritten_question, documents, document_scores,
                   document_metadata, generation, retry_count, max_retries,
                   relevance_decision, workflow_path, slm_prompt, port_calls, ports,
                   result, stream>>
    /\ UNCHANGED fnVars
    /\ UNCHANGED tutorVars

StreamAnswerStep == \E out \in StreamOutcomes : StreamAnswer(out)

StreamNext ==
    \/ RetrieveStep
    \/ GradeStep
    \/ RewriteStep
    \/ GenerateStep
    \/ StreamAnswerStep
    \/ YieldComplete
    \/ StreamGraphRaise
    \/ EndpointExcept

SpecStream == StreamInit /\ [][StreamNext]_vars

----------------------------------------------------------------------------
(* _decide_after_grading called on its own, on any AgentState *)

RagIdle ==
    /\ pc = "idle"
    /\ question = <<>>
    /\ rewritten_question = None
    /\ documents = <<>>
    /\ document_scores = <<>>
    /\ document_metadata = <<>>
    /\ generation = <<>>
    /\ retry_count = 0
    /\ max_retries = 0
    /\ relevance_decision = "None"
    /\ workflow_path = <<>>
    /\ slm_prompt = NoPrompt
    /\ port_calls = <<>>
    /\ ports = [retrieval |-> "any", rewrite |-> "any"]
    /\ result = EmptyResult
    /\ stream = FALSE
    /\ events = <<>>

\* the AgentStates the routing function is handed
DecideInputs ==
    { [question |-> q, rewritten_question |-> None, documents |-> docs,
       retry_count |-> rc, max_retries |-> mr, relevance_decision |-> rd,
       workflow_path |-> <<"retrieve", "grade">>] :
         q \in Questions, docs \in {<<>>, <<Doc1.text>>},
         rc \in 0..MaxCounterBound, mr \in 0..MaxCounterBound,
         rd \in {"None", "yes", "no"} }

DecideInit ==
    /\ RagIdle
    /\ TutorIdle
    /\ fn_pc = "ready"
    /\ fn_in \in DecideInputs
    /\ fn_before = fn_in
    /\ fn_out = ""

\* one call of _decide_after_grading(state): it reads three keys and writes none
CallDecide ==
    /\ fn_pc = "ready"
    /\ fn_out' = DecideAfterGrading(fn_in.relevance_decision, fn_in.retry_count,
                                    fn_in.max_retries)
    /\ fn_in' = fn_in
    /\ fn_pc' = "called"
    /\ UNCHANGED fn_before
    /\ UNCHANGED ragVars
    /\ UNCHANGED tutorVars

DecideNext == CallDecide

SpecDecide == DecideInit /\ [][DecideNext]_vars

----------------------------------------------------------------------------
(* route_phase: the phase router of the pedagogical tutor *)

\* TutoringPhase values
PhaseInitial == <<"i","n","i","t","i","a","l">>
PhaseExplanation == <<"e","x","p","l","a","n","a","t","i","o","n">>
PhaseImplementation == <<"i","m","p","l","e","m","e","n","t","a","t","i","o","n">>
PhaseDebugging == <<"d","e","b","u","g","g","i","n","g">>
PhaseReflection == <<"r","e","f","l","e","c","t","i","o","n">>
TutoringPhase == {PhaseInitial, PhaseExplanation, PhaseImplementation,
                  PhaseDebugging, PhaseReflection}

\* the labels route_phase returns
INITIAL == <<"I","N","I","T","I","A","L">>
EXPLANATION == <<"E","X","P","L","A","N","A","T","I","O","N">>
IMPLEMENTATION == <<"I","M","P","L","E","M","E","N","T","A","T","I","O","N">>
DEBUGGING == <<"D","E","B","U","G","G","I","N","G">>
REFLECTION == <<"R","E","F","L","E","C","T","I","O","N">>
ValidPhases == {INITIAL, EXPLANATION, IMPLEMENTATION, DEBUGGING, REFLECTION}

DebuggingKeywords ==
    << <<"e","r","r","o","r">>,
       <<"b","u","g">>,
       <<"d","o","e","s","n","'","t"," ","w","o","r","k">>,
       <<"w","r","o","n","g">>,
       <<"e","x","c","e","p","t","i","o","n">>,
       <<"i","n","f","i","n","i","t","e"," ","l","o","o","p">>,
       <<"l","o","o","p">>,
       <<"s","t","u","c","k">>,
       <<"t","e","r","m","i","n","a","t","e">> >>
CompletionKeywords ==
    << <<"d","o","n","e">>,
       <<"f","i","n","i","s","h","e","d">>,
       <<"c","o","m","p","l","e","t","e","d">>,
       <<"w","h","a","t","'","s"," ","n","e","x","t">>,
       <<"w","o","r","k","s">>,
       <<"s","o","l","v","e","d">> >>
ConfusionKeywords ==
    << <<"n","o","t"," ","s","u","r","e">>,
       <<"d","o","n","'","t"," ","k","n","o","w">>,
       <<"c","o","n","f","u","s","e","d">>,
       <<"l","o","s","t">>,
       <<"h","e","l","p">>,
       <<"d","o","n","'","t"," ","u","n","d","e","r","s","t","a","n","d">> >>
ImplementationKeywords ==
    << <<"i","m","p","l","e","m","e","n","t">>,
       <<"c","o","d","e">>,
       <<"m","e","t","h","o","d">>,
       <<"f","u","n","c","t","i","o","n">>,
       <<"w","r","i","t","e">> >>
ExplanationKeywords ==
    << <<"e","x","p","l","a","i","n">>,
       <<"u","n","d","e","r","s","t","a","n","d">>,
       <<"b","r","e","a","k"," ","d","o","w","n">> >>
NewTopicKeywords ==
    << <<"s","t","a","r","t">>,
       <<"n","e","w"," ","p","r","o","b","l","e","m">>,
       <<"d","i","f","f","e","r","e","n","t">>,
       <<"a","n","o","t","h","e","r">> >>

\* a fallback that tests implementation keywords before confusion keywords
FallbackPhase_ImplementationFirst(ps, message) ==
    LET m == Lower(message)
    IN  IF AnyIn(DebuggingKeywords, m) THEN DEBUGGING
        ELSE IF AnyIn(CompletionKeywords, m) THEN REFLECTION
        ELSE IF ~ps.problem_statement.some /\ Len(ps.phase_history) = 0 THEN INITIAL
        ELSE IF AnyIn(ImplementationKeywords, m) THEN IMPLEMENTATION
        ELSE IF AnyIn(ConfusionKeywords, m) THEN EXPLANATION
        ELSE IF AnyIn(ExplanationKeywords, m) THEN EXPLANATION
        ELSE IF AnyIn(NewTopicKeywords, m) THEN INITIAL
        ELSE Upper(ps.current_phase)

\* a fallback that tests the keyword rules before the first-turn rule
FallbackPhase_FirstTurnLast(ps, message) ==
    LET m == Lower(message)
    IN  IF AnyIn(DebuggingKeywords, m) THEN DEBUGGING
        ELSE IF AnyIn(CompletionKeywords, m) THEN REFLECTION
        ELSE IF AnyIn(ConfusionKeywords, m) THEN EXPLANATION
        ELSE IF AnyIn(ImplementationKeywords, m) THEN IMPLEMENTATION
        ELSE IF AnyIn(ExplanationKeywords, m) THEN EXPLANATION
        ELSE IF AnyIn(NewTopicKeywords, m) THEN INITIAL
        ELSE IF ~ps.problem_statement.some /\ Len(ps.phase_history) = 0 THEN INITIAL
        ELSE Upper(ps.current_phase)

\* route_phase: the rule-based fallback, an if/elif chain over message.lower()
FallbackPhase(ps, message) ==
    LET m == Lower(message)
    IN  IF AnyIn(DebuggingKeywords, m) THEN DEBUGGING
        ELSE IF AnyIn(CompletionKeywords, m) THEN REFLECTION
        ELSE IF ~ps.problem_statement.some /\ Len(ps.phase_history) = 0 THEN INITIAL
        ELSE IF AnyIn(ConfusionKeywords, m) THEN EXPLANATION
        ELSE IF AnyIn(ImplementationKeywords, m) THEN IMPLEMENTATION
        ELSE IF AnyIn(ExplanationKeywords, m) THEN EXPLANATION
        ELSE IF AnyIn(NewTopicKeywords, m) THEN INITIAL
        ELSE Upper(ps.current_phase)

\* route_phase: the label taken from the classifier, or from the current phase
\* when the completion call raises
\* a router whose failed completion call leaves it without a label
ClassifierLabel_FailureHasNoLabel(ps, llm) ==
    IF llm.ok THEN Upper(Strip(llm.text)) ELSE <<>>

ClassifierLabel(ps, llm) ==
    IF llm.ok THEN Upper(Strip(llm.text)) ELSE Upper(ps.current_phase)

\* a router that hands on the classifier's label unvalidated
RoutePhase_TrustsLabel(ps, message, llm) == ClassifierLabel(ps, llm)

\* route_phase(state)
RoutePhase(ps, message, llm) ==
    LET next_phase == ClassifierLabel(ps, llm)
    IN  IF next_phase \notin ValidPhases THEN FallbackPhase(ps, message) ELSE next_phase

\* what the completion port may answer the classification prompt
ClassifierOutcomes ==
    { LLMError,
      [ok |-> TRUE, text |-> INITIAL],
      [ok |-> TRUE, text |-> PhaseExplanation],
      [ok |-> TRUE, text |-> <<" ">> \o DEBUGGING \o <<"\n">>],
      [ok |-> TRUE, text |-> IMPLEMENTATION],
      [ok |-> TRUE, text |-> REFLECTION],
      [ok |-> TRUE, text |-> <<>>],
      [ok |-> TRUE, text |-> <<"D","E","B","U","G">>],
      [ok |-> TRUE, text |-> <<"P","h","a","s","e",":"," ","I","N","I","T","I","A","L">>] }

\* the messages of the tests, of the endpoint's documentation and of the spec
MsgStuckBST ==
    <<"I","'","m"," ","s","t","u","c","k"," ","i","m","p","l","e","m","e","n","t","i","n","g"," ","a"," ","B","S","T"," ","b","u","t"," ","I"," ","d","o","n","'","t"," ","u","n","d","e","r","s","t","a","n","d"," ","r","e","c","u","r","s","i","o","n">>
MsgNeedHelp ==
    <<"I"," ","n","e","e","d"," ","h","e","l","p"," ","w","i","t","h"," ","a"," ","d","a","t","a"," ","s","t","r","u","c","t","u","r","e","s"," ","p","r","o","b","l","e","m",".">>
MsgNotSure ==
    <<"I"," ","n","e","e","d"," ","t","o"," ","i","m","p","l","e","m","e","n","t"," ","a"," ","b","i","n","a","r","y"," ","s","e","a","r","c","h"," ","t","r","e","e"," ","i","n"," ","P","y","t","h","o","n",","," ","b","u","t"," ","I","'","m"," ","n","o","t"," ","s","u","r","e"," ","w","h","e","r","e"," ","t","o"," ","s","t","a","r","t",".">>
MsgTypeError ==
    <<"I"," ","w","r","o","t","e"," ","s","o","m","e"," ","c","o","d","e"," ","f","o","r"," ","t","h","e"," ","i","n","s","e","r","t"," ","m","e","t","h","o","d",","," ","b","u","t"," ","I","'","m"," ","g","e","t","t","i","n","g"," ","a"," ","T","y","p","e","E","r","r","o","r"," ","a","n","d"," ","i","t","'","s"," ","n","o","t"," ","w","o","r","k","i","n","g",".">>
MsgWorksNow ==
    <<"A","h",","," ","I"," ","s","e","e","!"," ","T","h","e"," ","p","r","o","b","l","e","m"," ","w","a","s"," ","i","n"," ","m","y"," ","n","o","d","e"," ","i","n","i","t","i","a","l","i","z","a","t","i","o","n","."," ","I"," ","f","i","x","e","d"," ","i","t"," ","a","n","d"," ","i","t"," ","w","o","r","k","s"," ","n","o","w","!"," ","T","h","a","n","k","s",".">>
MsgNewProblem ==
    <<"O","k","a","y",","," ","t","h","a","t","'","s"," ","g","r","e","a","t","."," ","N","o","w"," ","I","'","d"," ","l","i","k","e"," ","t","o"," ","s","t","a","r","t"," ","a"," ","n","e","w"," ","p","r","o","b","l","e","m"," ","a","b","o","u","t"," ","s","o","r","t","i","n","g"," ","a","l","g","o","r","i","t","h","m","s",".">>
MsgHello == <<"h","i">>

\* one keyword of each class, to build messages holding any combination of classes
ClassWords == << DebuggingKeywords[1], CompletionKeywords[1], ConfusionKeywords[3],
                 ImplementationKeywords[1], ExplanationKeywords[1], NewTopicKeywords[4] >>

RECURSIVE WordsFrom(_, _)
WordsFrom(i, classes) ==
    IF i > Len(ClassWords) THEN MsgHello
    ELSE IF i \in classes THEN ClassWords[i] \o <<" ">> \o WordsFrom(i + 1, classes)
    ELSE WordsFrom(i + 1, classes)

Messages ==
    {MsgStuckBST, MsgNeedHelp, MsgNotSure, MsgTypeError, MsgWorksNow, MsgNewProblem}
    \cup {WordsFrom(1, classes) : classes \in SUBSET (1..Len(ClassWords))}

ProblemBST == <<"B","S","T">>

\* a default state that already records the initial phase
NewPedagogicalState_RecordsInitial(id) ==
    [conversation_id |-> id, current_phase |-> PhaseInitial,
     problem_statement |-> None, last_user_message |-> None,
     last_ai_response |-> None, phase_history |-> <<PhaseInitial>>]

\* PedagogicalState(conversation_id=...): the state of a conversation before its first turn
NewPedagogicalState(id) ==
    [conversation_id |-> id, current_phase |-> PhaseInitial,
     problem_statement |-> None, last_user_message |-> None,
     last_ai_response |-> None, phase_history |-> <<>>]

\* the states a conversation is in when a turn begins: new, or left by the
\* phase node of the turn before, which appends its phase and makes it current
PedagogicalStates ==
    {NewPedagogicalState("c1")}
    \cup { [conversation_id |-> "c1", current_phase |-> p, problem_statement |-> prob,
            last_user_message |-> Some(MsgHello), last_ai_response |-> Some(MsgHello),
            phase_history |-> h \o <<p>>] :
              p \in TutoringPhase, prob \in {None, Some(ProblemBST)},
              h \in {<<>>, <<PhaseInitial>>} }

RouterInputs ==
    [pedagogical_state : PedagogicalStates, user_message : Messages, llm : ClassifierOutcomes]

RouterInit ==
    /\ RagIdle
    /\ TutorIdle
    /\ fn_pc = "ready"
    /\ fn_in \in RouterInputs
    /\ fn_before = fn_in
    /\ fn_out = <<>>

\* one call of route_phase(state)
CallRoutePhase ==
    /\ fn_pc = "ready"
    /\ fn_out' = RoutePhase(fn_in.pedagogical_state, fn_in.user_message, fn_in.llm)
    /\ fn_in' = fn_in
    /\ fn_pc' = "called"
    /\ UNCHANGED fn_before
    /\ UNCHANGED ragVars
    /\ UNCHANGED tutorVars

RouterNext == CallRoutePhase

SpecRouter == RouterInit /\ [][RouterNext]_vars

----------------------------------------------------------------------------
(* The pedagogical tutor: StateManager, the phase nodes, POST /chat/pedagogical
   and the state endpoints *)

\* longest phase_history a conversation is taken to by arbitrary requests
MaxTurns == 3

ConvIds == {"c1"}

\* StateManager.get_or_create_state: the store afterwards; the state returned is
\* its entry for id
GetOrCreateState(store, id) ==
    IF id \in DOMAIN store THEN store ELSE store @@ (id :> NewPedagogicalState(id))

\* the methods of PedagogicalState: attributes of a state that are not fields
PedagogicalStateMethods == {"get_phase_summary", "transition_to_phase"}

\* hasattr(state, key)
HasAttr(state, key) == key \in DOMAIN state \/ key \in PedagogicalStateMethods

\* one keyword argument
Kw(key, value) == [key |-> key, value |-> value]

\* the loop of update_state over kwargs.items(), in the order of the call: a
\* name the state has no attribute for is logged and skipped, a field is
\* assigned in place, and an attribute that is no field is handed to setattr,
\* which a pydantic model refuses with ValueError (object has no field), ending
\* the loop with the earlier assignments made
RECURSIVE SetAttrs(_, _)
SetAttrs(state, kwargs) ==
    IF kwargs = <<>>
    THEN [state |-> state, raised |-> FALSE]
    ELSE LET kw == Head(kwargs)
         IN  IF ~HasAttr(state, kw.key)
             THEN SetAttrs(state, Tail(kwargs))
             ELSE IF kw.key \in DOMAIN state
                  THEN SetAttrs([state EXCEPT ![kw.key] = kw.value], Tail(kwargs))
                  ELSE [state |-> state, raised |-> TRUE]

\* StateManager.update_state(id, **kwargs): the store afterwards, whether the
\* call returned or raised
UpdateState(store, id, kwargs) ==
    LET st == GetOrCreateState(store, id)
    IN  [st EXCEPT ![id] = SetAttrs(st[id], kwargs).state]

\* StateManager.update_state raises
UpdateRaises(store, id, kwargs) ==
    SetAttrs(GetOrCreateState(store, id)[id], kwargs).raised

\* StateManager.get_state: self.states.get(id)
NoState == [some |-> FALSE]

\* a lookup that hands out a default state for an id it does not know
GetState_HandsOutDefault(store, id) ==
    [some |-> TRUE, state |-> GetOrCreateState(store, id)[id]]

GetState(store, id) ==
    IF id \in DOMAIN store THEN [some |-> TRUE, state |-> store[id]] ELSE NoState

\* a delete that reports success and keeps the entry
DeleteState_KeepsEntry(store, id) ==
    [store |-> store, deleted |-> id \in DOMAIN store]

\* StateManager.delete_state: the store afterwards and the bool returned
\* a delete that empties the whole store
DeleteState_DropsAll(store, id) ==
    [store |-> EmptyStore, deleted |-> id \in DOMAIN store]

DeleteState(store, id) ==
    IF id \in DOMAIN store
    THEN [store |-> [c \in DOMAIN store \ {id} |-> store[c]], deleted |-> TRUE]
    ELSE [store |-> store, deleted |-> FALSE]

\* what the completion port may answer a phase node
AnswerText == <<"W","h","a","t"," ","h","a","v","e"," ","y","o","u"," ","t","r","i","e","d","?">>
NodeOutcomes == {LLMError, [ok |-> TRUE, text |-> AnswerText]}

\* what it may answer the router in a turn: a failure, a label, or no label
TurnClassifierOutcomes ==
    {out \in ClassifierOutcomes :
        out.ok => (out.text = <<>> \/ Upper(Strip(out.text)) \in ValidPhases)}

MsgYesFails == <<"Y","e","s","."," ","I","t"," ","f","a","i","l","s">>
TurnMessages == {MsgNeedHelp, MsgYesFails}

\* str.startswith
StartsWith(s, prefix) ==
    Len(s) >= Len(prefix) /\ SubSeq(s, 1, Len(prefix)) = prefix

\* debugging_node: the leading acknowledgements it removes
Acknowledgements == << <<"y","e","s",".">>,
                      <<"y","e","a","h",".">>,
                      <<"o","k",".">>,
                      <<"o","k","a","y",".">>,
                      <<"s","u","r","e",".">> >>

\* s.split('.', 1)[1]
AfterFirstDot(s) ==
    LET k == CHOOSE i \in 1..Len(s) : s[i] = "." /\ \A j \in 1..(i - 1) : s[j] # "."
    IN  SubSeq(s, k + 1, Len(s))

\* debugging_node: problem_part
ProblemPart(message) ==
    IF \E a \in 1..Len(Acknowledgements) : StartsWith(Lower(message), Acknowledgements[a])
    THEN Strip(AfterFirstDot(message))
    ELSE message

\* debugging_node: its answer is a template, no completion is asked for
DebuggingAnswer(message) ==
    <<"That sounds frustrating! Can you tell me more about what you're trying to do?\n\nYou mentioned: ">>
    \o ProblemPart(message)
    \o <<"\n\nWhat does the error or issue mean? Can you show me the relevant part of your code?">>

\* chat_pedagogical: phase_node_map.get(target_phase, initial_node), each node
\* named by the phase it records
PhaseNodeMap(target) ==
    CASE target = INITIAL -> PhaseInitial
      [] target = EXPLANATION -> PhaseExplanation
      [] target = IMPLEMENTATION -> PhaseImplementation
      [] target = DEBUGGING -> PhaseDebugging
      [] target = REFLECTION -> PhaseReflection
      [] OTHER -> PhaseInitial

\* the nodes that call rag_service.llm.complete(prompt), outside any try
CallsCompletion(phase) == phase # PhaseDebugging
NodeRaises(phase, llm) == CallsCompletion(phase) /\ ~llm.ok

\* initial_node: a message of more than this many characters becomes the
\* problem statement
MinProblemLen == 20
\* nodes of every phase inferring the problem statement
NodeProblemStatement_AnyPhase(phase, ps, message) ==
    IF ~Truthy(ps.problem_statement) /\ Len(Strip(message)) > MinProblemLen
    THEN Some(Strip(message))
    ELSE ps.problem_statement

NodeProblemStatement(phase, ps, message) ==
    IF phase = PhaseInitial /\ ~Truthy(ps.problem_statement)
       /\ Len(Strip(message)) > MinProblemLen
    THEN Some(Strip(message))
    ELSE ps.problem_statement

\* a node that records a phase only when it differs from the current one, as
\* PedagogicalState.transition_to_phase does
NodeHistory_OnChangeOnly(ps, phase) ==
    IF ps.current_phase # phase THEN ps.phase_history \o <<ps.current_phase>>
    ELSE ps.phase_history

\* pedagogical_state.phase_history + [phase]
NodeHistory(ps, phase) == ps.phase_history \o <<phase>>

\* a node that refreshes the messages and the history and leaves current_phase
PhaseNode_KeepsPhase(phase, ps, message, llm) ==
    LET answer == IF CallsCompletion(phase) THEN llm.text ELSE DebuggingAnswer(message)
    IN  [generation |-> answer,
         pedagogical_state |->
            [ps EXCEPT !.last_user_message = Some(message),
                       !.last_ai_response = Some(answer),
                       !.problem_statement = NodeProblemStatement(phase, ps, message),
                       !.phase_history = NodeHistory(ps, phase)]]

\* initial_node .. reflection_node: the dict a node returns when its completion
\* succeeds; the state is a copy, the one it was given is not written
PhaseNode(phase, ps, message, llm) ==
    LET answer == IF CallsCompletion(phase) THEN llm.text ELSE DebuggingAnswer(message)
    IN  [generation |-> answer,
         pedagogical_state |->
            [ps EXCEPT !.last_user_message = Some(message),
                       !.last_ai_response = Some(answer),
                       !.problem_statement = NodeProblemStatement(phase, ps, message),
                       !.phase_history = NodeHistory(ps, phase),
                       !.current_phase = phase]]

\* PedagogicalState.get_phase_summary
PhaseSummary(phase) ==
    CASE phase = PhaseInitial -> "Understanding your problem"
      [] phase = PhaseExplanation -> "Breaking down the problem"
      [] phase = PhaseImplementation -> "Working on the solution"
      [] phase = PhaseDebugging -> "Fixing issues"
      [] phase = PhaseReflection -> "Reviewing and learning"
      [] OTHER -> "Unknown phase"

\* POST /chat/pedagogical: one tutoring turn. `service` tells whether
\* get_agentic_rag_service() hands out a service or raises, router_llm and
\* node_llm what the completion port answers the router and the phase node.
ChatPedagogical(id, message, service, router_llm, node_llm) ==
    /\ \E st \in {GetOrCreateState(states, id)} :
       \E target_phase \in {RoutePhase(st[id], message, router_llm)} :
       \E node_result \in {PhaseNode(PhaseNodeMap(target_phase), st[id], message, node_llm)} :
         LET raised == ~service \/ NodeRaises(PhaseNodeMap(target_phase), node_llm)
             updated_state == node_result.pedagogical_state
         IN  /\ request' = [op |-> "chat", id |-> id,
                            completion_failed |->
                                service /\ (~router_llm.ok
                                            \/ NodeRaises(PhaseNodeMap(target_phase), node_llm))]
             /\ IF raised
                THEN /\ states' = st
                     /\ response' = [status |-> 500,
                                     detail |-> "Failed to process pedagogical request"]
                ELSE /\ states' = UpdateState(st, id,
                          <<Kw("current_phase", updated_state.current_phase),
                            Kw("problem_statement", updated_state.problem_statement),
                            Kw("last_user_message", updated_state.last_user_message),
                            Kw("last_ai_response", updated_state.last_ai_response),
                            Kw("phase_history", updated_state.phase_history)>>)
                     /\ response' = [status |-> 200,
                                     answer |-> node_result.generation,
                                     current_phase |-> updated_state.current_phase,
                                     phase_summary |-> PhaseSummary(updated_state.current_phase),
                                     phase_history |-> updated_state.phase_history,
                                     problem_statement |-> updated_state.problem_statement,
                                     question |-> message]
    /\ UNCHANGED wsVars
    /\ UNCHANGED ragVars
    /\ UNCHANGED fnVars

\* the request record of a state endpoint
StateRequest(op, id) ==
    [op |-> op, id |-> id, completion_failed |-> FALSE]

\* GET /chat/pedagogical/state/{conversation_id}
GetPedagogicalState(id) ==
    /\ request' = StateRequest("get", id)
    /\ LET got == GetState(states, id)
       IN  response' =
              IF got.some
              THEN [status |-> 200,
                    conversation_id |-> got.state.conversation_id,
                    current_phase |-> got.state.current_phase,
                    phase_summary |-> PhaseSummary(got.state.current_phase),
                    phase_history |-> got.state.phase_history,
                    problem_statement |-> got.state.problem_statement,
                    last_user_message |-> got.state.last_user_message,
                    last_ai_response |-> got.state.last_ai_response]
              ELSE [status |-> 404, detail |-> "Conversation not found"]
    /\ UNCHANGED states
    /\ UNCHANGED wsVars
    /\ UNCHANGED ragVars
    /\ UNCHANGED fnVars

\* DELETE /chat/pedagogical/state/{conversation_id}
ClearPedagogicalState(id) ==
    /\ request' = StateRequest("delete", id)
    /\ LET done == DeleteState(states, id)
       IN  /\ states' = done.store
           /\ response' = IF done.deleted
                          THEN [status |-> 200,
                                message |-> "Pedagogical state cleared successfully"]
                          ELSE [status |-> 404, detail |-> "Conversation not found"]
    /\ UNCHANGED wsVars
    /\ UNCHANGED ragVars
    /\ UNCHANGED fnVars

TutorInit == RagIdle /\ FnIdle /\ TutorIdle

\* the ports of one turn: no service to be had, or a service whose completion
\* port answers the router and the phase node
TurnPorts ==
    {[service |-> FALSE, router_llm |-> LLMError, node_llm |-> LLMError]}
    \cup [service : {TRUE}, router_llm : TurnClassifierOutcomes, node_llm : NodeOutcomes]

\* number of turns the conversation has completed
Turns(id) == IF id \in DOMAIN states THEN Len(states[id].phase_history) ELSE 0

ChatTurn ==
    \E id \in ConvIds, message \in TurnMessages, p \in TurnPorts :
        /\ Turns(id) < MaxTurns
        /\ ChatPedagogical(id, message, p.service, p.router_llm, p.node_llm)
GetStateCall == \E id \in ConvIds : GetPedagogicalState(id)
ClearStateCall == \E id \in ConvIds : ClearPedagogicalState(id)

TutorNext ==
    \/ ChatTurn
    \/ GetStateCall
    \/ ClearStateCall

SpecTutor == TutorInit /\ [][TutorNext]_vars

\* test_pedagogical_flow.py: the client sends the messages of test_01 .. test_05
\* in this order to one conversation, sending a message again when its turn
\* failed; it reads the state and deletes it (test_06, and the fixture)
TestMessages == <<MsgNeedHelp, MsgNotSure, MsgTypeError, MsgWorksNow, MsgNewProblem>>

FlowTurn ==
    \E id \in ConvIds, p \in TurnPorts :
        /\ Turns(id) < Len(TestMessages)
        /\ ChatPedagogical(id, TestMessages[Turns(id) + 1],
                           p.service, p.router_llm, p.node_llm)

FlowNext ==
    \/ FlowTurn
    \/ GetStateCall
    \/ ClearStateCall

SpecFlow == TutorInit /\ [][FlowNext]_vars

----------------------------------------------------------------------------
(* StateManager called directly, operation by operation *)

StoreIds == {"c1", "c2"}

\* keyword arguments handed to update_state: fields of the state, a name the
\* state has no attribute for, and the name of one of its methods
UpdateKwargs ==
    { <<Kw("current_phase", PhaseDebugging), Kw("phase_history", <<PhaseDebugging>>)>>,
      <<Kw("problem_statement", Some(ProblemBST))>>,
      <<Kw("mood", Some(MsgHello))>>,
      <<Kw("last_user_message", Some(MsgHello)), Kw("get_phase_summary", Some(MsgHello)),
        Kw("last_ai_response", Some(AnswerText))>> }

\* what a call that raised hands back
ValueError == [raised |-> "ValueError"]

StoreInit == RagIdle /\ FnIdle /\ TutorIdle

\* the record of a call: operation and arguments, the store before, the value returned
Called(op, id, kwargs, out) ==
    /\ fn_pc' = "called"
    /\ fn_in' = [op |-> op, id |-> id, kwargs |-> kwargs]
    /\ fn_before' = states
    /\ fn_out' = out
    /\ UNCHANGED <<request, response>>
    /\ UNCHANGED wsVars
    /\ UNCHANGED ragVars

CallGetOrCreateState(id) ==
    /\ states' = GetOrCreateState(states, id)
    /\ Called("get_or_create_state", id, <<>>, states'[id])

CallUpdateState(id, kwargs) ==
    /\ states' = UpdateState(states, id, kwargs)
    /\ Called("update_state", id, kwargs,
              IF UpdateRaises(states, id, kwargs) THEN ValueError ELSE states'[id])

CallGetState(id) ==
    /\ states' = states
    /\ Called("get_state", id, <<>>, GetState(states, id))

CallDeleteState(id) ==
    /\ states' = DeleteState(states, id).store
    /\ Called("delete_state", id, <<>>, DeleteState(states, id).deleted)

\* StateManager.clear_all_states
CallClearAllStates ==
    /\ states' = EmptyStore
    /\ Called("clear_all_states", "", <<>>, NoState)

StoreNext ==
    \/ \E id \in StoreIds : CallGetOrCreateState(id)
    \/ \E id \in StoreIds, kwargs \in UpdateKwargs : CallUpdateState(id, kwargs)
    \/ \E id \in StoreIds : CallGetState(id)
    \/ \E id \in StoreIds : CallDeleteState(id)
    \/ CallClearAllStates

SpecStore == StoreInit /\ [][StoreNext]_vars

----------------------------------------------------------------------------
(* /api/ws/chat-pedagogical/{conversation_id}: handlers of several connections
   taking turns on the event loop. A handler runs until it awaits; `running`
   names the handler that has not awaited since its last step. *)

\* longest phase_history the connections take a conversation to
MaxWsTurns == 2

\* what a client may send: a message the fallback routes to initial on a first
\* turn and to explanation later, and the empty message
WsMessages == {MsgNeedHelp, <<>>}

\* what the completion port may answer the router of a connection: a failure,
\* a label, or no label
WsClassifierOutcomes ==
    {out \in TurnClassifierOutcomes :
        out.ok => Upper(Strip(out.text)) \in {<<>>, DEBUGGING, IMPLEMENTATION, REFLECTION}}

\* the object a handler holds as pedagogical_state: the stored object itself,
\* or, once the entry was deleted under it, the object as the delete left it
Held(c) ==
    IF conns[c].held_stored THEN states[conns[c].id] ELSE conns[c].held_state

\* handlers that have read the state of id and not yet committed
InFlight(id) == {c \in WsConns : conns[c].id = id /\ conns[c].pc # "receive"}

\* the handler of c may take its next step
MayRun(c) == running = "none" \/ running = c

\* what a node leaves of the state object it was given: model_copy and
\* phase_history + [phase] build new objects
NodeLeaves_AppendsInPlace(ps, phase) ==
    [ps EXCEPT !.phase_history = Append(@, phase)]

NodeLeaves(ps, phase) == ps

\* what route_phase leaves of the state object it was given: it only reads it
RouterLeaves(ps) == ps

\* a tutoring handler that serves the empty message like any other
WsReceive_ServesEmpty(c, message) ==
    /\ running = "none"
    /\ conns[c].pc = "receive"
    /\ LET id == conns[c].id
       IN  /\ Turns(id) + Cardinality(InFlight(id)) < MaxWsTurns
           /\ states' = GetOrCreateState(states, id)
           /\ conns' = [conns EXCEPT ![c] =
                          [pc |-> "route", id |-> id, message |-> message,
                           previous_phase |-> states'[id].current_phase,
                           held_stored |-> TRUE, held_state |-> <<>>,
                           target |-> <<>>, result |-> NoResult]]
           /\ IF Len(states'[id].phase_history) = 0
              THEN /\ sent' = Sent(c, <<"phase_change">>)
                   /\ running' = "none"
              ELSE /\ sent' = Sent(c, <<>>)
                   /\ running' = c
    /\ UNCHANGED <<request, response>>
    /\ UNCHANGED ragVars
    /\ UNCHANGED fnVars

\* a tutoring handler that works on a copy of the state it read
WsReceive_ReadsCopy(c, message) ==
    /\ running = "none"
    /\ conns[c].pc = "receive"
    /\ LET id == conns[c].id
       IN  IF ~Truthy(Some(message))
           THEN /\ sent' = Sent(c, <<"error">>)
                /\ UNCHANGED <<states, conns, running>>
           ELSE /\ Turns(id) + Cardinality(InFlight(id)) < MaxWsTurns
                /\ states' = GetOrCreateState(states, id)
                /\ conns' = [conns EXCEPT ![c] =
                               [pc |-> "route", id |-> id, message |-> message,
                                previous_phase |-> states'[id].current_phase,
                                held_stored |-> FALSE, held_state |-> states'[id],
                                target |-> <<>>, result |-> NoResult]]
                /\ IF Len(states'[id].phase_history) = 0
                   THEN /\ sent' = Sent(c, <<"phase_change">>)
                        /\ running' = "none"
                   ELSE /\ sent' = Sent(c, <<>>)
                        /\ running' = c
    /\ UNCHANGED <<request, response>>
    /\ UNCHANGED ragVars
    /\ UNCHANGED fnVars

\* receive_text() returned: an empty message is answered with one error event;
\* otherwise the state is read and, when it has no history yet, a phase_change
\* event is sent, which lets other handlers run
WsReceive(c, message) ==
    /\ running = "none"
    /\ conns[c].pc = "receive"
    /\ LET id == conns[c].id
       IN  IF ~Truthy(Some(message))
           THEN /\ sent' = Sent(c, <<"error">>)
                /\ UNCHANGED <<states, conns, running>>
           ELSE /\ Turns(id) + Cardinality(InFlight(id)) < MaxWsTurns
                /\ states' = GetOrCreateState(states, id)
                /\ conns' = [conns EXCEPT ![c] =
                               [pc |-> "route", id |-> id, message |-> message,
                                previous_phase |-> states'[id].current_phase,
                                held_stored |-> TRUE, held_state |-> <<>>,
                                target |-> <<>>, result |-> NoResult]]
                /\ IF Len(states'[id].phase_history) = 0
                   THEN /\ sent' = Sent(c, <<"phase_change">>)
                        /\ running' = "none"
                   ELSE /\ sent' = Sent(c, <<>>)
                        /\ running' = c
    /\ UNCHANGED <<request, response>>
    /\ UNCHANGED ragVars
    /\ UNCHANGED fnVars

\* the handler's except branch: one error event, back to receive_text()
WsFail(c) ==
    /\ sent' = Sent(c, <<"error">>)
    /\ conns' = [conns EXCEPT ![c] = Receiving(conns[c].id)]
    /\ running' = "none"

\* route_phase(graph_state)
WsRoute(c, service, llm) ==
    /\ MayRun(c)
    /\ conns[c].pc = "route"
    /\ Len(Held(c).phase_history) < MaxWsTurns
    /\ IF ~service
       THEN /\ WsFail(c)
            /\ UNCHANGED states
       ELSE /\ conns' = [conns EXCEPT ![c].pc = "node",
                                      ![c].target = RoutePhase(Held(c), conns[c].message, llm),
                                      ![c].held_state = IF conns[c].held_stored THEN <<>>
                                                        ELSE RouterLeaves(Held(c))]
            /\ states' = IF conns[c].held_stored
                         THEN [states EXCEPT ![conns[c].id] = RouterLeaves(@)]
                         ELSE states
            /\ running' = c
            /\ sent' = Sent(c, <<>>)
    /\ UNCHANGED <<request, response>>
    /\ UNCHANGED ragVars
    /\ UNCHANGED fnVars

\* node_function(graph_state)
WsNode(c, llm) ==
    /\ running = c
    /\ conns[c].pc = "node"
    /\ LET phase == PhaseNodeMap(conns[c].target)
       IN  IF NodeRaises(phase, llm)
           THEN /\ WsFail(c)
                /\ UNCHANGED states
           ELSE /\ conns' = [conns EXCEPT ![c].pc = "update",
                                          ![c].result = PhaseNode(phase, Held(c), conns[c].message, llm),
                                          ![c].held_state = IF conns[c].held_stored THEN <<>>
                                                            ELSE NodeLeaves(Held(c), phase)]
                /\ states' = IF conns[c].held_stored
                             THEN [states EXCEPT ![conns[c].id] = NodeLeaves(@, phase)]
                             ELSE states
                /\ sent' = Sent(c, <<>>)
                /\ UNCHANGED running
    /\ UNCHANGED <<request, response>>
    /\ UNCHANGED ragVars
    /\ UNCHANGED fnVars

\* state_manager.update_state(...), then the events of the turn
WsUpdate(c) ==
    /\ running = c
    /\ conns[c].pc = "update"
    /\ LET updated_state == conns[c].result.pedagogical_state
       IN  /\ states' = UpdateState(states, conns[c].id,
                          <<Kw("current_phase", updated_state.current_phase),
                            Kw("problem_statement", updated_state.problem_statement),
                            Kw("last_user_message", updated_state.last_user_message),
                            Kw("last_ai_response", updated_state.last_ai_response),
                            Kw("phase_history", updated_state.phase_history)>>)
           /\ sent' = Sent(c, (IF conns[c].previous_phase # updated_state.current_phase
                                THEN <<"phase_change">> ELSE <<>>)
                               \o (IF updated_state.phase_history # <<>>
                                   THEN <<"workflow">> ELSE <<>>)
                               \o <<"token", "complete">>)
    /\ conns' = [conns EXCEPT ![c] = Receiving(conns[c].id)]
    /\ running' = "none"
    /\ UNCHANGED <<request, response>>
    /\ UNCHANGED ragVars
    /\ UNCHANGED fnVars

\* DELETE /chat/pedagogical/state/{conversation_id} while handlers hold the
\* state: the entry goes, the object stays with whoever holds it
ClearWhileConnected(id) ==
    /\ running = "none"
    /\ request' = StateRequest("delete", id)
    /\ LET done == DeleteState(states, id)
       IN  /\ states' = done.store
           /\ response' = IF done.deleted
                          THEN [status |-> 200,
                                message |-> "Pedagogical state cleared successfully"]
                          ELSE [status |-> 404, detail |-> "Conversation not found"]
    /\ conns' = [c \in WsConns |->
                    IF conns[c].id = id /\ conns[c].held_stored
                    THEN [conns[c] EXCEPT !.held_stored = FALSE, !.held_state = states[id]]
                    ELSE conns[c]]
    /\ sent' = NothingSent
    /\ UNCHANGED running
    /\ UNCHANGED ragVars
    /\ UNCHANGED fnVars

\* the ports of an HTTP turn that comes in between: no service to be had, or a
\* service whose completion port fails the router, which then stays in the
\* current phase, and answers or fails the phase node
FallbackPorts == {p \in TurnPorts : ~p.router_llm.ok}

\* POST /chat/pedagogical between the steps of the connections' handlers: the
\* handler has no await, so it runs from its read to its commit in one step
TurnWhileConnected(id, p) ==
    /\ running = "none"
    /\ Turns(id) + Cardinality(InFlight(id)) < MaxWsTurns
    /\ ChatPedagogical(id, MsgNeedHelp, p.service, p.router_llm, p.node_llm)

WsReceiveStep == \E c \in WsConns, message \in WsMessages : WsReceive(c, message)
WsRouteStep ==
    \E c \in WsConns, service \in BOOLEAN, llm \in WsClassifierOutcomes :
        WsRoute(c, service, llm)
WsNodeStep == \E c \in WsConns, llm \in NodeOutcomes : WsNode(c, llm)
WsUpdateStep == \E c \in WsConns : WsUpdate(c)
WsClearStep == \E id \in ConvIds : ClearWhileConnected(id)

WsNext ==
    \/ WsReceiveStep
    \/ WsRouteStep
    \/ WsNodeStep
    \/ WsUpdateStep
    \/ WsClearStep

SpecWs == TutorInit /\ [][WsNext]_vars

----------------------------------------------------------------------------
(* Turns served concurrently for one conversation that is not deleted
   meanwhile: the handlers of two connections and HTTP turns *)

ServeTurnStep == \E id \in ConvIds, p \in FallbackPorts : TurnWhileConnected(id, p)

ServeNext ==
    \/ WsReceiveStep
    \/ WsRouteStep
    \/ WsNodeStep
    \/ WsUpdateStep
    \/ ServeTurnStep

SpecServe == TutorInit /\ [][ServeNext]_vars

----------------------------------------------------------------------------
(* One client connection, to /api/ws/chat (stream holds) or to
   /api/ws/chat-pedagogical (it does not): the receive loops of the two
   handlers. `events` and `sent` hold what the message received last was
   answered with. *)

EmptyMessage == "Empty message received"

\* websocket_chat_endpoint: receive_text() returned. An empty message is
\* answered with one error event; any other starts query_stream on its
\* initial_state
ChatReceive(message, mr, behaviour) ==
    /\ stream
    /\ pc \in {"receive", "done"}
    /\ IF ~Truthy(Some(message))
       THEN /\ events' = <<ErrorEvent(EmptyMessage, <<>>)>>
            /\ pc' = "receive"
            /\ question' = <<>>
            /\ max_retries' = 0
            /\ ports' = [retrieval |-> "any", rewrite |-> "any"]
       ELSE /\ events' = <<>>
            /\ pc' = "retrieve"
            /\ question' = message
            /\ max_retries' = mr
            /\ ports' = behaviour
    /\ rewritten_question' = None
    /\ documents' = <<>>
    /\ document_scores' = <<>>
    /\ document_metadata' = <<>>
    /\ generation' = <<>>
    /\ retry_count' = 0
    /\ relevance_decision' = "None"
    /\ workflow_path' = <<>>
    /\ slm_prompt' = NoPrompt
    /\ port_calls' = <<>>
    /\ UNCHANGED <<result, stream>>
    /\ UNCHANGED fnVars
    /\ UNCHANGED tutorVars

\* the connection is accepted: its handler awaits the first message
ConnInit ==
    /\ stream \in BOOLEAN
    /\ pc = IF stream THEN "receive" ELSE "idle"
    /\ question = <<>>
    /\ rewritten_question = None
    /\ documents = <<>>
    /\ document_scores = <<>>
    /\ document_metadata = <<>>
    /\ generation = <<>>
    /\ retry_count = 0
    /\ max_retries = 0
    /\ relevance_decision = "None"
    /\ workflow_path = <<>>
    /\ slm_prompt = NoPrompt
    /\ port_calls = <<>>
    /\ ports = [retrieval |-> "any", rewrite |-> "any"]
    /\ result = EmptyResult
    /\ events = <<>>
    /\ FnIdle
    /\ TutorIdle

TheConn == "w1"

ChatReceiveStep ==
    \E message \in Questions \cup {<<>>}, mr \in 0..MaxRetriesBound,
       behaviour \in PortBehaviours : ChatReceive(message, mr, behaviour)
TutorReceiveStep == ~stream /\ \E message \in WsMessages : WsReceive(TheConn, message)
TutorRouteStep ==
    /\ ~stream
    /\ \E service \in BOOLEAN, llm \in WsClassifierOutcomes : WsRoute(TheConn, service, llm)
TutorNodeStep == ~stream /\ \E llm \in NodeOutcomes : WsNode(TheConn, llm)
TutorUpdateStep == ~stream /\ WsUpdate(TheConn)

ConnNext ==
    \/ ChatReceiveStep
    \/ RetrieveStep
    \/ GradeStep
    \/ RewriteStep
    \/ GenerateStep
    \/ StreamAnswerStep
    \/ YieldComplete
    \/ StreamGraphRaise
    \/ EndpointExcept
    \/ TutorReceiveStep
    \/ TutorRouteStep
    \/ TutorNodeStep
    \/ TutorUpdateStep

SpecConn == ConnInit /\ [][ConnNext]_vars

----------------------------------------------------------------------------
(* Two conversations served side by side: connection w1 talks to c1 and w2 to
   c2 over /api/ws/chat-pedagogical, while HTTP requests for either id, and
   clear_all_states, come in between the steps of their handlers *)

IsoInit ==
    /\ RagIdle
    /\ FnIdle
    /\ states = EmptyStore
    /\ request = NoRequest
    /\ response = NoResponse
    /\ conns = [c \in WsConns |-> Receiving(IF c = "w1" THEN "c1" ELSE "c2")]
    /\ running = "none"
    /\ sent = NothingSent

\* GET /chat/pedagogical/state/{conversation_id}, likewise
IsoGet(id) ==
    /\ running = "none"
    /\ GetPedagogicalState(id)

\* StateManager.clear_all_states: every entry goes, the objects stay with
\* whoever holds them
IsoClearAll ==
    /\ running = "none"
    /\ states' = EmptyStore
    /\ conns' = [c \in WsConns |->
                    IF conns[c].held_stored
                    THEN [conns[c] EXCEPT !.held_stored = FALSE,
                                          !.held_state = states[conns[c].id]]
                    ELSE conns[c]]
    /\ sent' = NothingSent
    /\ UNCHANGED <<request, response, running>>
    /\ UNCHANGED ragVars
    /\ UNCHANGED fnVars

IsoTurnStep == \E id \in StoreIds, p \in FallbackPorts : TurnWhileConnected(id, p)
IsoGetStep == \E id \in StoreIds : IsoGet(id)
IsoDeleteStep == \E id \in StoreIds : ClearWhileConnected(id)

IsoReceiveStep == \E c \in WsConns, message \in WsMessages : WsReceive(c, message)
IsoRouteStep == \E c \in WsConns, p \in FallbackPorts : WsRoute(c, p.service, p.router_llm)
IsoNodeStep == \E c \in WsConns, llm \in NodeOutcomes : WsNode(c, llm)
IsoUpdateStep == \E c \in WsConns : WsUpdate(c)

IsoNext ==
    \/ IsoReceiveStep
    \/ IsoRouteStep
    \/ IsoNodeStep
    \/ IsoUpdateStep
    \/ IsoTurnStep
    \/ IsoGetStep
    \/ IsoDeleteStep
    \/ IsoClearAll

SpecIso == IsoInit /\ [][IsoNext]_vars

----------------------------------------------------------------------------
(* Properties of a correction-loop run *)

\* number of times node occurs in path
Count(path, node) == Cardinality({i \in DOMAIN path : path[i] = node})

\* the node names of a joined workflow path
SplitArrow(joined) == SelectSeq(joined, LAMBDA x : x # Arrow)

\* retrieve, grade, (rewrite, retrieve, grade)*, generate
RECURSIVE LoopThenGenerate(_)
LoopThenGenerate(p) ==
    \/ p = <<"generate">>
    \/ /\ Len(p) > 3
       /\ SubSeq(p, 1, 3) = <<"rewrite", "retrieve", "grade">>
       /\ LoopThenGenerate(SubSeq(p, 4, Len(p)))
WellFormedPath(p) ==
    /\ Len(p) >= 3
    /\ SubSeq(p, 1, 2) = <<"retrieve", "grade">>
    /\ LoopThenGenerate(SubSeq(p, 3, Len(p)))

\* (retrieve, grade, rewrite)^n retrieve, grade, generate
RECURSIVE ExpectedPath(_)
ExpectedPath(n) == IF n = 0 THEN <<"retrieve", "grade", "generate">>
                   ELSE <<"retrieve", "grade", "rewrite">> \o ExpectedPath(n - 1)

JustGraded == workflow_path # <<>> /\ workflow_path[Len(workflow_path)] = "grade"

\* C1: a run executes rewrite at most max_retries times and retrieve at most
\* max_retries + 1 times, whatever the ports do.
C1_RewriteBound ==
    /\ Count(workflow_path, "rewrite") <= max_retries
    /\ Count(workflow_path, "retrieve") <= max_retries + 1

\* C2: every run reaches generate and returns a result with an answer, whatever
\* the ports do: no run ends otherwise.
C2_EveryRunReturns ==
    ~Running =>
        /\ pc \in {"END", "returned"}
        /\ Count(workflow_path, "generate") = 1
        /\ pc = "returned" => result.answer = generation

\* C3: retry_count <= max_retries in every state of a run, and rewrites_used of
\* the returned result never exceeds max_retries.
C3_RetryBound ==
    /\ retry_count <= max_retries
    /\ pc = "returned" => result.rewrites_used <= max_retries
C3_Witness ==
    /\ pc = "returned"
    /\ max_retries > 0
    /\ result.rewrites_used = max_retries

\* C4: the workflow_path of a returned result is non-empty and reads
\* retrieve, grade, (rewrite, retrieve, grade)*, generate.
C4_PathShape ==
    pc = "returned" =>
        LET p == SplitArrow(result.workflow_path)
        IN  /\ p # <<>>
            /\ WellFormedPath(p)
            /\ p[1] = "retrieve"
            /\ p[Len(p)] = "generate"
            /\ Count(p, "generate") = 1
            /\ \A i \in 1..(Len(p) - 1) :
                  /\ p[i] = "rewrite" => p[i + 1] = "retrieve"
                  /\ p[i] = "retrieve" => p[i + 1] = "grade"
C4_Witness ==
    /\ pc = "returned"
    /\ Count(SplitArrow(result.workflow_path), "rewrite") = 2

\* C5: _decide_after_grading returns "generate" for a relevant verdict,
\* "generate" for any other verdict once retry_count >= max_retries, "rewrite"
\* in every other case, and leaves the state it is given as it was.
C5_DecideIsPureRouting ==
    fn_pc = "called" =>
        /\ fn_before.relevance_decision = "yes" => fn_out = "generate"
        /\ (fn_before.relevance_decision # "yes"
            /\ fn_before.retry_count >= fn_before.max_retries) => fn_out = "generate"
        /\ (fn_before.relevance_decision # "yes"
            /\ fn_before.retry_count < fn_before.max_retries) => fn_out = "rewrite"
        /\ fn_in = fn_before
C5_Witness ==
    /\ fn_pc = "called"
    /\ fn_before.relevance_decision = "no"
    /\ fn_before.retry_count = 3
    /\ fn_before.max_retries = 4
    /\ fn_out = "rewrite"

\* C6: a grade step that finds no documents sets relevance_decision to "no"
\* and calls no port.
C6_GradeEmpty ==
    (JustGraded /\ documents = <<>>) =>
        (relevance_decision = "no" /\ port_calls = <<>>)
C6_Witness ==
    /\ JustGraded
    /\ documents = <<>>
    /\ relevance_decision = "no"
    /\ ports.retrieval = "any"

\* C7: once the first grade step has judged the documents relevant, the run is
\* retrieve, grade, generate: no rewrite, rewrites_used = 0, was_rewritten false.
FirstGradeRelevant ==
    /\ workflow_path = <<"retrieve", "grade">>
    /\ relevance_decision = "yes"
StraightToGenerate ==
    /\ workflow_path \in {<<"retrieve", "grade">>, <<"retrieve", "grade", "generate">>}
    /\ pc \in {"generate", "END", "returned"}
    /\ retry_count = 0
    /\ ~rewritten_question.some
    /\ pc = "returned" =>
          /\ result.workflow_path = JoinArrow(<<"retrieve", "grade", "generate">>)
          /\ Count(result.workflow_path, "rewrite") = 0
          /\ result.rewrites_used = 0
          /\ ~result.was_rewritten
C7_RelevantStraightToGenerate == [](FirstGradeRelevant => []StraightToGenerate)
C7_Witness ==
    /\ pc = "returned"
    /\ relevance_decision = "yes"
    /\ max_retries > 0
    /\ result.workflow_path = JoinArrow(<<"retrieve", "grade", "generate">>)

\* C8: when retrieval finds nothing on every call and rewrite completions
\* succeed, a run with max_retries = n returns the path
\* (retrieve, grade, rewrite)^n retrieve, grade, generate and rewrites_used = n.
C8_EmptyRetrievalUsesAllRetries ==
    (ports.retrieval = "empty" /\ ports.rewrite = "ok" /\ pc = "returned") =>
        /\ result.workflow_path = JoinArrow(ExpectedPath(max_retries))
        /\ result.rewrites_used = max_retries
        /\ Count(workflow_path, "rewrite") = max_retries
C8_Witness ==
    /\ ports.retrieval = "empty"
    /\ ports.rewrite = "ok"
    /\ pc = "returned"
    /\ max_retries = 1
    /\ result.workflow_path = <<"retrieve", Arrow, "grade", Arrow, "rewrite", Arrow,
                                "retrieve", Arrow, "grade", Arrow, "generate">>
    /\ result.rewrites_used = 1

----------------------------------------------------------------------------
(* Properties of the phase router *)

Routed == fn_pc = "called"

\* the classifier answered, and its answer is none of the five labels
NoValidLabel ==
    /\ fn_before.llm.ok
    /\ ClassifierLabel(fn_before.pedagogical_state, fn_before.llm) \notin ValidPhases

\* phase_history == [] and problem_statement is None
FirstTurn ==
    /\ fn_before.pedagogical_state.phase_history = <<>>
    /\ ~fn_before.pedagogical_state.problem_statement.some

MessageHas(kws) == AnyIn(kws, Lower(fn_before.user_message))

\* C9 as stated: with no valid label, the message "I'm stuck implementing a BST
\* but I don't understand recursion" is routed to EXPLANATION.
C9_StuckRoutedToExplanation ==
    (Routed /\ NoValidLabel /\ fn_before.user_message = MsgStuckBST) =>
        fn_out = EXPLANATION

\* C9, amended: with no valid label that message is routed to DEBUGGING (it
\* holds the debugging keyword "stuck"); a message with implementation and
\* confusion keywords is never routed to IMPLEMENTATION, and is routed to
\* EXPLANATION when it holds no debugging and no completion keyword and the
\* conversation is past its first turn.
C9_ConfusionBeforeImplementation ==
    (Routed /\ NoValidLabel) =>
        /\ fn_before.user_message = MsgStuckBST => fn_out = DEBUGGING
        /\ (MessageHas(ConfusionKeywords) /\ MessageHas(ImplementationKeywords)) =>
              /\ fn_out # IMPLEMENTATION
              /\ (~MessageHas(DebuggingKeywords) /\ ~MessageHas(CompletionKeywords)
                  /\ ~FirstTurn) => fn_out = EXPLANATION
C9_Witness ==
    /\ Routed
    /\ NoValidLabel
    /\ fn_before.user_message = MsgStuckBST
    /\ MessageHas(ConfusionKeywords)
    /\ MessageHas(ImplementationKeywords)
    /\ fn_out = DEBUGGING

RuleCount == 8
RuleApplies(i) ==
    CASE i = 1 -> MessageHas(DebuggingKeywords)
      [] i = 2 -> MessageHas(CompletionKeywords)
      [] i = 3 -> FirstTurn
      [] i = 4 -> MessageHas(ConfusionKeywords)
      [] i = 5 -> MessageHas(ImplementationKeywords)
      [] i = 6 -> MessageHas(ExplanationKeywords)
      [] i = 7 -> MessageHas(NewTopicKeywords)
      [] OTHER -> TRUE
RulePhase(i) ==
    CASE i = 1 -> DEBUGGING
      [] i = 2 -> REFLECTION
      [] i = 3 -> INITIAL
      [] i = 4 -> EXPLANATION
      [] i = 5 -> IMPLEMENTATION
      [] i = 6 -> EXPLANATION
      [] i = 7 -> INITIAL
      [] OTHER -> Upper(fn_before.pedagogical_state.current_phase)
FirstRule == CHOOSE i \in 1..RuleCount :
                RuleApplies(i) /\ \A j \in 1..(i - 1) : ~RuleApplies(j)

----------------------------------------------------------------------------
(* Properties of a streaming query *)

EventsOfType(t) == SelectSeq(events, LAMBDA e : e.type = t)
IsTerminal(e) == e.type \in {"complete", "error"}

\* the entry a graph node appends to workflow_path
PathLabel(node) == CASE node = "grade_documents" -> "grade"
                     [] node = "rewrite_query" -> "rewrite"
                     [] OTHER -> node

\* C13: a finished streaming query has sent exactly one terminal event, one
\* 'complete' and no 'error' or one 'error' and no 'complete'.
C13_OneTerminalEvent ==
    pc = "done" =>
        \/ Len(EventsOfType("complete")) = 1 /\ Len(EventsOfType("error")) = 0
        \/ Len(EventsOfType("error")) = 1 /\ Len(EventsOfType("complete")) = 0

\* C14: no 'workflow' or 'token' event follows a 'complete' or 'error' event.
C14_TerminalEventLast ==
    \A i, j \in DOMAIN events :
        (i < j /\ IsTerminal(events[i])) => events[j].type \notin {"workflow", "token"}
C14_Witness ==
    /\ pc = "done"
    /\ events[Len(events)].type = "complete"
    /\ Len(EventsOfType("token")) = 2
    /\ Len(EventsOfType("workflow")) > 3

\* C15: the 'workflow' events name the nodes that ran, one event per entry of
\* workflow_path and in the same order, and all of them precede every 'token'
\* event.
C15_OneWorkflowEventPerNode ==
    LET wf == EventsOfType("workflow")
    IN  /\ Len(wf) = Len(workflow_path)
        /\ \A i \in DOMAIN wf : PathLabel(wf[i].node) = workflow_path[i]
        /\ \A i, j \in DOMAIN events :
              (events[i].type = "workflow" /\ events[j].type = "token") => i < j
        /\ \A i \in DOMAIN events :
              events[i].type = "complete" =>
                  /\ WellFormedPath(workflow_path)
                  /\ SplitArrow(events[i].workflow_path) = workflow_path
C15_Witness ==
    /\ pc = "done"
    /\ Len(EventsOfType("complete")) = 1
    /\ Len(EventsOfType("token")) = 2
    /\ Count(workflow_path, "rewrite") = 2
    /\ Len(EventsOfType("workflow")) = 9

\* the texts the completion port may return to the grade and rewrite steps
GradeAndRewriteTexts ==
    {out.text : out \in GradeOutcomes \cup RewriteOutcomes}
    \cup {Strip(out.text) : out \in GradeOutcomes \cup RewriteOutcomes}

\* C16: a 'token' event carries a chunk of the streamed answer generation, never
\* a text returned to a grade or rewrite step, and is sent only after the last
\* grade or rewrite step of the run.
C16_TokensAreGenerationOnly ==
    \A i \in DOMAIN events :
        events[i].type = "token" =>
            /\ \E out \in StreamOutcomes, k \in 1..2 :
                  k <= Len(out.chunks) /\ out.chunks[k] = events[i].content
            /\ events[i].content \notin GradeAndRewriteTexts
            /\ port_calls = <<"llm.stream_complete">>
            /\ ~Running
            /\ \A j \in DOMAIN events :
                  (events[j].type = "workflow"
                   /\ events[j].node \in {"grade_documents", "rewrite_query"}) => j < i
C16_Witness ==
    /\ pc = "done"
    /\ Len(EventsOfType("token")) = 2
    /\ Truthy(rewritten_question)
    /\ \E i \in DOMAIN events : events[i].type = "workflow" /\ events[i].node = "rewrite_query"

----------------------------------------------------------------------------
(* Properties of the tutor and of its state store *)

HistoryOf(store, id) == IF id \in DOMAIN store THEN store[id].phase_history ELSE <<>>
TurnCompleted(req, resp) == req.op = "chat" /\ resp.status = 200
TurnFailed(req, resp) == req.op = "chat" /\ resp.status = 500

\* C12: a completed turn appends exactly one entry, the phase it was routed to,
\* to the phase_history it found, and nothing else alters the history of a stored
\* conversation: five turns routed to initial, explanation, debugging,
\* reflection, initial leave exactly these five entries.
C12_HistoryAppendsPerTurn ==
    [][\A id \in ConvIds :
          IF TurnCompleted(request', response') /\ request'.id = id
          THEN /\ states'[id].phase_history
                     = HistoryOf(states, id) \o <<response'.current_phase>>
               /\ response'.phase_history = states'[id].phase_history
               /\ states'[id].current_phase = response'.current_phase
          ELSE id \in DOMAIN states' => states'[id].phase_history = HistoryOf(states, id)
      ]_vars
C12_Witness ==
    /\ TurnCompleted(request, response)
    /\ "c1" \in DOMAIN states
    /\ states["c1"].phase_history = <<PhaseInitial, PhaseExplanation, PhaseDebugging,
                                      PhaseReflection, PhaseInitial>>

\* C17: a turn that fails leaves the store as it was when the turn began: no
\* entry created, no field modified.
C17_FailedTurnLeavesStore ==
    [][TurnFailed(request', response') => states' = states]_vars

\* C18: a turn in which a completion call failed still answers the caller: it
\* ends with status 200 and an answer.
C18_NoCompletionFailurePropagates ==
    (request.op = "chat" /\ request.completion_failed) =>
        (response.status = 200 /\ response.answer # <<>>)

\* C19: get_or_create_state returns the stored state of the id without changing
\* the store when the id is known, so that a second call returns what the first
\* returned; for an unknown id it stores and returns one new state with phase
\* initial, an empty phase_history and no problem statement.
C19_GetOrCreateIdempotent ==
    [][(fn_pc' = "called" /\ fn_in'.op = "get_or_create_state") =>
          LET id == fn_in'.id
          IN  /\ DOMAIN states' = DOMAIN states \cup {id}
              /\ fn_out' = states'[id]
              /\ \A other \in DOMAIN states : states'[other] = states[other]
              /\ id \notin DOMAIN states =>
                    /\ fn_out'.conversation_id = id
                    /\ fn_out'.current_phase = PhaseInitial
                    /\ fn_out'.phase_history = <<>>
                    /\ fn_out'.problem_statement = None
              /\ (/\ fn_pc = "called"
                  /\ fn_in.op = "get_or_create_state"
                  /\ fn_in.id = id) => (fn_out' = fn_out /\ states' = states)
      ]_vars
C19_Witness ==
    /\ fn_pc = "called"
    /\ fn_in.op = "get_or_create_state"
    /\ fn_in.id \in DOMAIN fn_before
    /\ fn_before = states
    /\ DOMAIN states = StoreIds
    /\ fn_out = NewPedagogicalState(fn_in.id)

\* C20: a delete that succeeds removes the entry; a get that follows it finds
\* nothing, and a turn that follows it works on a new default state: its history
\* holds the one phase of this turn, its problem statement is unset or taken
\* from this turn's message, and when it fails the entry is the default state.
C20_DeleteStartsAfresh ==
    [][\A id \in ConvIds :
          /\ (request'.op = "delete" /\ request'.id = id /\ response'.status = 200) =>
                ~GetState(states', id).some
          /\ (request.op = "delete" /\ request.id = id /\ response.status = 200) =>
                /\ id \notin DOMAIN states
                /\ (request'.op = "get" /\ request'.id = id) => response'.status = 404
                /\ (TurnCompleted(request', response') /\ request'.id = id) =>
                      /\ states'[id].phase_history = <<response'.current_phase>>
                      /\ response'.phase_history = <<response'.current_phase>>
                      /\ states'[id].problem_statement
                            \in {None, Some(Strip(response'.question))}
                      /\ response'.problem_statement = states'[id].problem_statement
                      /\ states'[id].last_user_message = Some(response'.question)
                /\ (TurnFailed(request', response') /\ request'.id = id) =>
                      states'[id] = NewPedagogicalState(id)
      ]_vars
C20_Witness ==
    /\ request.op = "delete"
    /\ response.status = 200
    /\ ~GetState(states, request.id).some

\* C21: get and delete for an id the store does not hold answer not found (no
\* state, False, HTTP 404) and leave the store as it is, without an entry for
\* the id.
C21_UnknownIdNotFound ==
    [][\A id \in ConvIds :
          (id \notin DOMAIN states /\ request'.op \in {"get", "delete"} /\ request'.id = id) =>
              /\ response'.status = 404
              /\ states' = states
              /\ ~GetState(states, id).some
              /\ ~DeleteState(states, id).deleted
              /\ DeleteState(states, id).store = states
      ]_vars
C21_Witness ==
    /\ request.op = "get"
    /\ response.status = 404
    /\ request.id \notin DOMAIN states
\* the positions of kwargs that name field f
Named(kwargs, f) == {i \in DOMAIN kwargs : kwargs[i].key = f}

\* C22: update_state(id, fields) sets exactly the named fields the state has and
\* leaves its other fields and the other conversations as they were, starting
\* from a default state when id is absent; a name the state has no field for
\* raises nothing and changes nothing.
C22_UpdateSetsNamedFields ==
    [][(fn_pc' = "called" /\ fn_in'.op = "update_state") =>
          LET id == fn_in'.id
              kwargs == fn_in'.kwargs
              before == GetOrCreateState(states, id)[id]
          IN  /\ "raised" \notin DOMAIN fn_out'
              /\ id \in DOMAIN states'
              /\ \A f \in DOMAIN before :
                    states'[id][f] =
                        IF Named(kwargs, f) = {} THEN before[f]
                        ELSE kwargs[CHOOSE i \in Named(kwargs, f) :
                                        \A j \in Named(kwargs, f) : j <= i].value
              /\ \A c \in DOMAIN states \ {id} :
                    c \in DOMAIN states' /\ states'[c] = states[c]
      ]_vars
----------------------------------------------------------------------------
(* Port failures inside the nodes of the correction loop *)

\* the step taken is node `name` running with a port call that raised
NodeFailed(from, name, port) ==
    /\ pc = from
    /\ workflow_path' = Append(workflow_path, name)
    /\ port_calls' = <<port, "raised">>

\* C23: when the completion call of the grade node fails over a non-empty
\* document list, the verdict is "yes" and the node that runs next is generate,
\* never rewrite, whatever retries are left.
C23_GradeFailureIsRelevant ==
    [][NodeFailed("grade_documents", "grade", "llm.complete") =>
          /\ documents # <<>>
          /\ relevance_decision' = "yes"
          /\ pc' = "generate"
          /\ retry_count' = retry_count
      ]_vars
C23_Witness ==
    /\ pc = "generate"
    /\ port_calls = <<"llm.complete", "raised">>
    /\ documents # <<>>
    /\ relevance_decision = "yes"
    /\ retry_count < max_retries
\* C24: when the retrieval port fails, the retrieve node raises nothing: it
\* leaves documents, document_scores and document_metadata empty, whatever an
\* earlier pass had found, has appended "retrieve", and the run goes on to grade.
C24_RetrievalFailureEmptiesDocuments ==
    [][NodeFailed("retrieve", "retrieve", "query_engine.query") =>
          /\ documents' = <<>>
          /\ document_scores' = <<>>
          /\ document_metadata' = <<>>
          /\ pc' = "grade_documents"
      ]_vars
C24_Witness ==
    /\ pc = "grade_documents"
    /\ port_calls = <<"query_engine.query", "raised">>
    /\ Count(workflow_path, "retrieve") >= 2
    /\ documents = <<>>
\* C25: when the completion call of the rewrite node fails, rewritten_question
\* and retry_count keep their values, "rewrite" is the only thing the node has
\* written, and the run goes on to retrieve.
C25_RewriteFailureKeepsQuestion ==
    [][NodeFailed("rewrite_query", "rewrite", "llm.complete") =>
          /\ rewritten_question' = rewritten_question
          /\ retry_count' = retry_count
          /\ pc' = "retrieve"
          /\ UNCHANGED <<question, documents, document_scores, document_metadata,
                         generation, max_retries, relevance_decision, slm_prompt>>
      ]_vars
C25_Witness ==
    /\ pc = "retrieve"
    /\ port_calls = <<"llm.complete", "raised">>
    /\ Count(workflow_path, "rewrite") > retry_count
    /\ retry_count >= 1
    /\ rewritten_question.some

\* the texts a successful rewrite completion leaves in rewritten_question
RewrittenTexts == {Strip(out.text) : out \in {o \in RewriteOutcomes : o.ok}}

\* the step taken is the rewrite node running with a completion that succeeded
RewriteSucceeded ==
    /\ pc = "rewrite_query"
    /\ workflow_path' = Append(workflow_path, "rewrite")
    /\ port_calls' = <<"llm.complete">>

\* C26: a successful rewrite raises retry_count by exactly 1 and stores the
\* completion as rewritten_question; no step modifies question; once set,
\* rewritten_question is never reset, so it is set exactly when retry_count is
\* at least 1 and the result has was_rewritten exactly when rewrites_used >= 1.
C26_RewriteCountsAndKeepsQuestion ==
    [][/\ RewriteSucceeded =>
            /\ retry_count' = retry_count + 1
            /\ rewritten_question'.some
            /\ rewritten_question'.text \in RewrittenTexts
       /\ question' = question
       /\ rewritten_question.some => rewritten_question'.some
       /\ rewritten_question'.some <=> retry_count' >= 1
       /\ pc' = "returned" =>
            /\ result'.question = question
            /\ result'.was_rewritten <=> result'.rewrites_used >= 1
      ]_vars
C26_Witness ==
    /\ pc = "returned"
    /\ result.was_rewritten
    /\ result.rewrites_used = 2
    /\ Count(workflow_path, "rewrite") = 3
\* C27: when the completion call of the generate node fails, the run ends
\* normally: generation is the apology followed by the reason of the failure,
\* the prompt is recorded in slm_prompt, "generate" has been appended, and
\* query() returns a result carrying them.
C27_GenerateFailureApologizes ==
    [][/\ NodeFailed("generate", "generate", "llm.complete") =>
            /\ generation' = ApologyPrefix \o LLMError.text
            /\ slm_prompt' = GenerationPrompt(OrElse(rewritten_question, question), documents)
            /\ slm_prompt' # NoPrompt
            /\ pc' = "END"
       /\ (pc = "END" /\ ~stream) =>
            /\ pc' = "returned"
            /\ result'.answer = generation
            /\ result'.slm_prompt = slm_prompt
      ]_vars
C27_Witness ==
    /\ pc = "returned"
    /\ port_calls = <<"llm.complete", "raised">>
    /\ result.answer = ApologyPrefix \o LLMError.text
    /\ result.slm_prompt # NoPrompt
    /\ workflow_path[Len(workflow_path)] = "generate"
\* C28: documents, document_scores and document_metadata have the same length
\* in every state of a run, so the sources of a returned result are exactly
\* num_sources entries, one per document.
C28_DocumentListsAligned ==
    /\ Len(document_scores) = Len(documents)
    /\ Len(document_metadata) = Len(documents)
    /\ pc = "returned" =>
          /\ Len(result.sources) = result.num_sources
          /\ result.num_sources = Len(documents)
          /\ \A i \in 1..Len(documents) :
                /\ result.sources[i].text = DocPreview(documents[i])
                /\ result.sources[i].score = document_scores[i]
                /\ result.sources[i].metadata = document_metadata[i]
C28_Witness ==
    /\ pc = "returned"
    /\ result.num_sources = 2
    /\ Len(result.sources) = 2
    /\ result.sources[2].score = 0
----------------------------------------------------------------------------
(* The phase router when its completion call fails *)

\* the completion call of the router raised
ClassifierFailed == ~fn_before.llm.ok

\* C29 as stated: when the completion call of the router fails, the phase is
\* the one the keyword fallback picks for the message.
C29_FailureUsesFallback ==
    (Routed /\ ClassifierFailed) => fn_out = RulePhase(FirstRule)

\* C29, amended: when the completion call of the router fails, route_phase
\* returns the label of the current phase, whatever the message holds; the
\* keyword fallback is not consulted.
C29_FailureKeepsCurrentPhase ==
    (Routed /\ ClassifierFailed) =>
        /\ fn_out = Upper(fn_before.pedagogical_state.current_phase)
        /\ fn_out \in ValidPhases
C29_Witness ==
    /\ Routed
    /\ ClassifierFailed
    /\ MessageHas(DebuggingKeywords)
    /\ fn_before.pedagogical_state.current_phase = PhaseExplanation
    /\ fn_out = EXPLANATION
\* the messages the router is asked about in any state of a conversation
RoutedMessages == TurnMessages \cup {MsgStuckBST, MsgWorksNow, MsgHello}

\* C30: for every classifier outcome (a valid label, any other text, a failure)
\* and every message, route_phase returns one of the five labels from the state
\* any sequence of turns has left, so the dispatch finds its node without the
\* default; and current_phase of every stored state is one of the five phases.
C30_PhaseAlwaysValid ==
    /\ \A id \in DOMAIN states :
          /\ states[id].current_phase \in TutoringPhase
          /\ \A i \in DOMAIN states[id].phase_history :
                states[id].phase_history[i] \in TutoringPhase
    /\ \A id \in ConvIds, message \in RoutedMessages, llm \in ClassifierOutcomes :
          LET target_phase == RoutePhase(GetOrCreateState(states, id)[id], message, llm)
          IN  /\ target_phase \in ValidPhases
              /\ Upper(PhaseNodeMap(target_phase)) = target_phase
    /\ (request.op \in {"chat", "get"} /\ response.status = 200) =>
          response.current_phase \in TutoringPhase
C30_Witness ==
    /\ \E id \in DOMAIN states :
          /\ Len(states[id].phase_history) = MaxTurns
          /\ states[id].current_phase = PhaseDebugging
          /\ states[id].phase_history[1] = PhaseInitial
    /\ request.op = "chat"
    /\ response.status = 200
----------------------------------------------------------------------------
(* What a tutoring turn commits *)

\* the state a turn on id starts from
StateBefore(id) == GetOrCreateState(states, id)[id]

\* C31: after a completed turn routed to phase P the stored state has
\* current_phase P, the history it had with P appended, the message as
\* last_user_message and the answer returned as last_ai_response; so the last
\* entry of a non-empty phase_history names current_phase.
C31_TurnCommitsItsPhase ==
    [][\A id \in ConvIds :
          /\ (TurnCompleted(request', response') /\ request'.id = id) =>
                /\ \E llm \in TurnClassifierOutcomes :
                      RoutePhase(StateBefore(id), response'.question, llm)
                          = Upper(response'.current_phase)
                /\ states'[id].current_phase = response'.current_phase
                /\ states'[id].phase_history
                      = StateBefore(id).phase_history \o <<response'.current_phase>>
                /\ states'[id].last_user_message = Some(response'.question)
                /\ states'[id].last_ai_response = Some(response'.answer)
          /\ (id \in DOMAIN states' /\ states'[id].phase_history # <<>>) =>
                states'[id].phase_history[Len(states'[id].phase_history)]
                    = states'[id].current_phase
      ]_vars
C31_Witness ==
    /\ TurnCompleted(request, response)
    /\ states[request.id].current_phase = PhaseDebugging
    /\ states[request.id].phase_history = <<PhaseInitial, PhaseDebugging>>
    /\ states[request.id].last_user_message = Some(MsgYesFails)
    /\ states[request.id].last_ai_response = Some(response.answer)
\* the last entry of a non-empty history
LastEntry(history) == history[Len(history)]

\* an entry is appended to the history of id in this step
HistoryAppended(id) ==
    /\ id \in DOMAIN states'
    /\ Len(states'[id].phase_history) > Len(HistoryOf(states, id))

\* C32 as stated: whenever an entry is appended to phase_history, the last
\* entry already recorded, when there is one, differs from current_phase at
\* that moment.
C32_LoggedOnlyOnChange ==
    [][\A id \in ConvIds :
          (HistoryAppended(id) /\ HistoryOf(states, id) # <<>>) =>
              LastEntry(states[id].phase_history) # states[id].current_phase
      ]_vars

\* C32, amended: every completed turn appends one entry, the phase entered,
\* whether or not the phase changes; when an entry is appended to a non-empty
\* history, its last entry equals current_phase at that moment.
C32_LoggedEveryTurn ==
    [][\A id \in ConvIds :
          /\ (TurnCompleted(request', response') /\ request'.id = id) =>
                /\ HistoryAppended(id)
                /\ Len(states'[id].phase_history) = Len(HistoryOf(states, id)) + 1
                /\ LastEntry(states'[id].phase_history) = response'.current_phase
          /\ (HistoryAppended(id) /\ HistoryOf(states, id) # <<>>) =>
                LastEntry(states[id].phase_history) = states[id].current_phase
      ]_vars
C32_Witness ==
    /\ TurnCompleted(request, response)
    /\ states[request.id].phase_history = <<PhaseInitial, PhaseInitial>>
    /\ states[request.id].current_phase = PhaseInitial
\* C33: problem_statement is written once per conversation: only by a completed
\* turn of the initial node, only when none exists yet and the trimmed message
\* is longer than 20 characters; once set, no turn in any phase changes it in
\* the stored state until the state is deleted.
C33_ProblemStatementWriteOnce ==
    [][\A id \in ConvIds :
          id \in DOMAIN states' =>
              /\ StateBefore(id).problem_statement.some =>
                    states'[id].problem_statement = StateBefore(id).problem_statement
              /\ states'[id].problem_statement # StateBefore(id).problem_statement =>
                    /\ TurnCompleted(request', response') /\ request'.id = id
                    /\ response'.current_phase = PhaseInitial
                    /\ Len(Strip(response'.question)) > MinProblemLen
                    /\ states'[id].problem_statement = Some(Strip(response'.question))
              /\ (/\ TurnCompleted(request', response') /\ request'.id = id
                  /\ response'.current_phase = PhaseInitial
                  /\ ~StateBefore(id).problem_statement.some) =>
                    states'[id].problem_statement.some <=> Len(Strip(response'.question)) > MinProblemLen
      ]_vars
C33_Witness ==
    /\ TurnCompleted(request, response)
    /\ states[request.id].problem_statement = Some(MsgNeedHelp)
    /\ Len(states[request.id].phase_history) = 3
    /\ states[request.id].phase_history[2] = PhaseInitial
    /\ states[request.id].phase_history[1] = PhaseInitial
    /\ states[request.id].current_phase = PhaseReflection
    /\ states[request.id].last_user_message = Some(MsgYesFails)
----------------------------------------------------------------------------
(* Handlers and the state object they are given *)

\* the handler of c has taken a step from pc
Stepped(c, from) == conns[c].pc = from /\ conns'[c].pc # from

\* C34: the router and the phase handlers leave the state object they are
\* given as it is, its phase_history included; a handler returns a new state,
\* and the stored state of a conversation changes only through update_state.
C34_HandlersLeaveTheirInput ==
    [][\A c \in WsConns :
          /\ (Stepped(c, "route") \/ Stepped(c, "node")) =>
                /\ states' = states
                /\ conns'[c].pc # "receive" =>
                      /\ conns'[c].held_stored = conns[c].held_stored
                      /\ conns'[c].held_state = conns[c].held_state
          /\ (Stepped(c, "node") /\ conns'[c].pc = "update") =>
                /\ conns'[c].result.pedagogical_state # Held(c)
                /\ conns'[c].result.pedagogical_state.phase_history
                      = Held(c).phase_history \o <<PhaseNodeMap(conns[c].target)>>
          /\ \A id \in DOMAIN states \cap DOMAIN states' :
                states'[id] # states[id] =>
                    \E u \in WsConns :
                        /\ Stepped(u, "update")
                        /\ conns[u].id = id
                        /\ states'[id] = conns[u].result.pedagogical_state
      ]_vars
C34_Witness ==
    \E c \in WsConns :
        /\ conns[c].pc = "update"
        /\ conns[c].held_stored
        /\ states[conns[c].id].phase_history = <<PhaseInitial>>
        /\ conns[c].result.pedagogical_state.phase_history = <<PhaseInitial, PhaseReflection>>
        /\ conns[c].result.pedagogical_state.current_phase = PhaseReflection
        /\ states[conns[c].id].current_phase = PhaseInitial
----------------------------------------------------------------------------
(* The empty message on the WebSocket endpoints *)

\* the step taken is a handler receiving the empty message
ChatReceivedEmpty ==
    \E mr \in 0..MaxRetriesBound, behaviour \in PortBehaviours :
        ChatReceive(<<>>, mr, behaviour)
TutorReceivedEmpty == WsReceive(TheConn, <<>>)

\* C35: an empty message is turned away before the workflow: on either
\* WebSocket endpoint it is answered with exactly one error event and nothing
\* else, no retrieval or completion port is called, no conversation state is
\* created or changed, and the handler is back at receiving, where a later
\* message is accepted.
C35_EmptyMessageRejected ==
    [][/\ ChatReceivedEmpty =>
            /\ Len(events') = 1
            /\ events'[1].type = "error"
            /\ port_calls' = <<>>
            /\ workflow_path' = <<>>
            /\ states' = states
            /\ pc' = "receive"
       /\ TutorReceivedEmpty =>
            /\ sent' = Sent(TheConn, <<"error">>)
            /\ states' = states
            /\ conns' = conns
            /\ conns'[TheConn].pc = "receive"
            /\ running' = "none"
       /\ (stream /\ pc = "receive") => ENABLED ChatReceiveStep
       /\ (~stream /\ conns[TheConn].pc = "receive" /\ Turns("c1") < MaxWsTurns) =>
            ENABLED TutorReceiveStep
      ]_vars
C35_Witness ==
    \/ /\ stream
       /\ pc = "receive"
       /\ Len(events) = 1
       /\ events[1].type = "error"
    \/ /\ ~stream
       /\ sent = Sent(TheConn, <<"error">>)
       /\ conns[TheConn].pc = "receive"
       /\ TheConn \notin InFlight("c1")
       /\ Turns("c1") = 1

----------------------------------------------------------------------------
(* Isolation of conversations *)

\* the step is a step of an operation on conversation a: a step of the
\* tutoring handler of a connection to a (get_or_create_state, route_phase,
\* the node, update_state), or an HTTP turn, read or delete for a
OperatesOn(a) ==
    \/ \E c \in WsConns :
          /\ conns[c].id = a
          /\ \/ \E message \in WsMessages : WsReceive(c, message)
             \/ \E p \in FallbackPorts : WsRoute(c, p.service, p.router_llm)
             \/ \E llm \in NodeOutcomes : WsNode(c, llm)
             \/ WsUpdate(c)
    \/ \E p \in FallbackPorts : TurnWhileConnected(a, p)
    \/ IsoGet(a)
    \/ ClearWhileConnected(a)

\* C36: get_or_create, update, get, delete and a whole tutoring turn on
\* conversation id a leave the stored state of every other id b as it was,
\* whether b has a state or not, and leave the state object a handler of b
\* holds as it was, however the operations on a and b interleave.
C36_ConversationsIsolated ==
    [][\A a \in StoreIds :
          OperatesOn(a) =>
              \A b \in StoreIds \ {a} :
                  /\ GetState(states', b) = GetState(states, b)
                  /\ \A c \in WsConns : conns[c].id = b => conns'[c] = conns[c]
      ]_vars

\* the handler of w1 has just committed the second turn of c1 while c2 has a
\* state with one turn and the handler of w2 is in the middle of a turn on it
C36_Witness ==
    /\ "c1" \in DOMAIN states
    /\ "c2" \in DOMAIN states
    /\ Len(states["c1"].phase_history) = 2
    /\ Len(states["c2"].phase_history) = 1
    /\ conns["w2"].pc = "route"
    /\ conns["w1"].pc = "receive"
    /\ sent.conn = "w1"
    /\ Len(sent.events) > 1

----------------------------------------------------------------------------
(* Concurrent turns *)

\* the stored history of id, empty while id has no state
StoredHistory(store, id) ==
    IF id \in DOMAIN store THEN store[id].phase_history ELSE <<>>

\* the step commits the turn of connection c
WsCommits(c) == conns[c].pc = "update" /\ WsUpdate(c)

\* the step is an HTTP turn for id that was answered
TurnCommits(id) ==
    /\ \E p \in FallbackPorts : TurnWhileConnected(id, p)
    /\ response'.status = 200

----------------------------------------------------------------------------
(* The final event of a streaming query *)

\* the contents of the token events, in emission order
RECURSIVE TokenContents(_)
TokenContents(evs) ==
    IF evs = <<>> THEN <<>>
    ELSE (IF Head(evs).type = "token" THEN <<Head(evs).content>> ELSE <<>>)
         \o TokenContents(Tail(evs))

\* the query ended with a 'complete' event
EndedComplete == events # <<>> /\ events[Len(events)].type = "complete"

\* C38: in every streaming query that ends with a 'complete' event, the answer
\* of that event is the concatenation, in emission order, of the contents of
\* the query's token events, trimmed, also when the final retrieval returned
\* no documents.
C38_AnswerIsStreamedTokens ==
    EndedComplete =>
        events[Len(events)].answer = Strip(Concat(TokenContents(events)))

\* C39: the 'complete' event of a streaming query carries the values the
\* non-streaming query returns for the same question, max_retries and port
\* behaviour, in question (the caller's question, also after a rewrite),
\* num_sources, workflow_path, rewrites_used and was_rewritten.
C39_CompleteMatchesResult ==
    EndedComplete =>
        LET complete == events[Len(events)]
        IN  /\ complete.question = QueryResult.question
            /\ complete.num_sources = QueryResult.num_sources
            /\ complete.workflow_path = QueryResult.workflow_path
            /\ complete.rewrites_used = QueryResult.rewrites_used
            /\ complete.was_rewritten = QueryResult.was_rewritten

====
